---- MODULE Spec2Model ----
(***************************************************************************)
(* Model of the FRA report generator core:                                 *)
(*   - app/arcgis.py      ArcGISClient (pagination loop, retry loop)       *)
(*   - app/indicators.py  IndicatorService.resolve_aoi and its helpers     *)
(*   - app/geo.py         geometry_centroid                                *)
(*   - app/layers.py      AOI_LAYERS, state name table                     *)
(*                                                                         *)
(* SpecClient drives one ArcGISClient through queries, one HTTP response   *)
(* per step.  SpecResolve drives one IndicatorService through resolve_aoi  *)
(* calls, one administrative level per step.                               *)
(*                                                                         *)
(* Record constructors list their fields in the order in which TLC keeps   *)
(* them, so that no worker of TLC ever reorders a record another worker    *)
(* reads; the order of the fields of a record carries no meaning.          *)
(***************************************************************************)
EXTENDS Integers, Sequences, FiniteSets, TLC

\* ------------------------------------------------------------------------
\* Bounds of the model
\* ------------------------------------------------------------------------
MaxFeatures == 4

MaxPageSize == 2

MaxRetryBudget == 2

MaxStartOffset == 1

\* Longest name handed to _eq_clause.
MaxNameLen == 3

\* Largest attempt number handed to _sleep.
MaxSleepAttempt == 3

\* Longest candidate list handed to min_distance_km.
MaxPoints == 3

\* Largest stage of development, in percent, of a district row.
MaxStage == 120

\* Longest abbreviation handed to get_state_full_name.
MaxCodeLen == 2

\* Python's None, for optional strings and optional results.
None == "<None>"

VARIABLES
    \* --- ArcGISClient and the feature service it talks to ---
    max_retries,      \* ArcGISClient.max_retries
    total_features,   \* number of features the service holds
    cpc,              \* position of the client: idle, request (in session.post),
                      \* sleep (in time.sleep), returned, raised
    page_size,        \* payload["resultRecordCount"]
    start_offset,     \* payload["resultOffset"] as given by the caller
    offset,           \* query(): offset
    items,            \* query(): items, a sequence of feature ids
    attempt,          \* _request(): attempt of the last answer, 0 before the first
    statuses,         \* outcomes of the attempts of the current _request call
    slept,            \* attempt numbers passed to _sleep in the current _request call
    round_trips,      \* page requests of the current query that returned a page
    raised,           \* exception that left query(), or None
    returned,         \* value returned by query(), or None
    \* --- IndicatorService.resolve_aoi ---
    stub_mode,              \* settings.stub_mode
    last_resolution_notes,  \* self._last_resolution_notes
    rpc,                    \* position in resolve_aoi: idle, state, district,
                            \* block, village, returned, raised
    state,                  \* arguments of the current resolve_aoi call
    district,
    block,
    village,
    context,                \* resolve_aoi: context (a dict)
    state_feature,          \* Optional[dict]: <<>> is None, <<f>> a feature
    district_feature,
    block_feature,
    village_feature,
    queries,                \* queries the current call has sent to the client
    aoi,                    \* the AOI the call returned: <<>> or <<AOI>>
    error,                  \* the exception that left resolve_aoi
    \* --- IndicatorService._eq_clause ---
    ec_field,               \* _eq_clause: field, a sequence of characters
    ec_value,               \* _eq_clause: value, a sequence of characters
    ec_clause,              \* the predicate returned, a sequence of characters
    \* --- ArcGISClient._sleep ---
    backoff_factor,         \* ArcGISClient.backoff_factor, in milliseconds
    sleep_attempt,          \* _sleep: attempt
    sleep_delay,            \* the argument of time.sleep, in milliseconds
    \* --- layers.get_state_abbreviation, layers.get_state_full_name ---
    st_call,                \* the lookup called and its argument
    st_result,              \* what the lookup returned
    \* --- geo.min_distance_km ---
    md_base,                \* min_distance_km: base
    md_points,              \* min_distance_km: points
    md_result,              \* what it returned
    \* --- IndicatorService.build_indicator_bundle ---
    bpc,                    \* position: idle, gw, gw_pre, gw_during, gw_post,
                            \* aquifer, lulc, mgnrega, returned, raised
    bundle_aoi,             \* build_indicator_bundle: aoi, <<>> before the first call
    gw_locals,              \* _fetch_groundwater: district_gw, pre_monsoon and
                            \* during_monsoon, as far as they are assigned
    gw,                     \* build_indicator_bundle: gw, <<>> until fetched
    aquifer,                \* build_indicator_bundle: aquifer, <<>> until fetched
    lulc,                   \* build_indicator_bundle: lulc, <<>> until fetched
    mgnrega,                \* build_indicator_bundle: mgnrega, <<>> until fetched
    bundle_queries,         \* queries the current call has sent to the client
    bundle,                 \* the IndicatorSet returned: <<>> or <<IndicatorSet>>
    \* --- callers that each resolve an AOI and then build its report ---
    cy_pc,                  \* per caller: start, state, district, block, village,
                            \* build, resolved, bundle, failed, reported
    cy_frame,               \* per caller: the locals of its resolve_aoi call, and
                            \* how far its build_indicator_bundle call has got
    cy_aoi,                 \* per caller: the AOI resolve_aoi returned to it
    cy_notes,               \* per caller: the notes its resolve_aoi call appended
    cy_report,              \* per caller: the report build_report returned to it
    \* --- IndicatorService._fetch_district_groundwater ---
    sg_outcome,             \* what the client does for the district query
    sg_data                 \* gw_data returned: <<>> before the call, then <<gw_data>>

cvars == <<max_retries, total_features, cpc, page_size, start_offset, offset,
           items, attempt, statuses, slept, round_trips, raised, returned>>

rvars == <<stub_mode, last_resolution_notes, rpc, state, district, block,
           village, context, state_feature, district_feature, block_feature,
           village_feature, queries, aoi, error>>

evars == <<ec_field, ec_value, ec_clause>>

svars == <<backoff_factor, sleep_attempt, sleep_delay>>

tvars == <<st_call, st_result>>

gvars == <<md_base, md_points, md_result>>

bvars == <<bpc, bundle_aoi, gw_locals, gw, aquifer, lulc, mgnrega, bundle_queries, bundle>>

yvars == <<cy_pc, cy_frame, cy_aoi, cy_notes, cy_report>>

dvars == <<sg_outcome, sg_data>>

vars == <<cvars, rvars, evars, svars, tvars, gvars, bvars, yvars, dvars>>

\* What a step of each component leaves alone.
noncvars == <<rvars, evars, svars, tvars, gvars, bvars, yvars, dvars>>

nonrvars == <<cvars, evars, svars, tvars, gvars, bvars, yvars, dvars>>

nonevars == <<cvars, rvars, svars, tvars, gvars, bvars, yvars, dvars>>

nonsvars == <<cvars, rvars, evars, tvars, gvars, bvars, yvars, dvars>>

nontvars == <<cvars, rvars, evars, svars, gvars, bvars, yvars, dvars>>

nongvars == <<cvars, rvars, evars, svars, tvars, bvars, yvars, dvars>>

\* build_indicator_bundle reads settings.stub_mode and nothing else of these.
nonbvars == <<cvars, rvars, evars, svars, tvars, gvars, yvars, dvars>>

\* ------------------------------------------------------------------------
\* app/arcgis.py
\* ------------------------------------------------------------------------

\* The statuses _request retries.
RETRIABLE == {429, 500, 502, 503, 504}

\* HTTP failure statuses the service answers with besides the retriable ones.
OtherFailures == {400, 404, 501}

\* What one session.post can produce: a JSON page of features, a JSON body
\* with an "error" member, a failure status (its body is never read), or no
\* response within the timeout (status 0).
Responses ==
    {[status |-> 200, body |-> "features"], [status |-> 200, body |-> "error"]}
    \cup {[status |-> s, body |-> "none"] : s \in RETRIABLE \cup OtherFailures}
    \cup {[status |-> 0, body |-> "timeout"]}

\* session.post(..., timeout=self.timeout) raised requests Timeout.
TimedOut(resp) == resp.body = "timeout"

\* requests.Response.raise_for_status: raises HTTPError for 4xx and 5xx.
raise_for_status(status) == status >= 400 /\ status < 600

\* _request: `if response.status_code in {429, 500, 502, 503, 504}`
IsRetriable_All(status) == status >= 400

IsRetriable(status) == status \in RETRIABLE

\* _request: `if attempt > self.max_retries`
BudgetExceeded_OffByOne(att, maxr) == att > maxr + 1

BudgetExceeded(att, maxr) == att > maxr

\* _request: `if "error" in data`
HasError_Never(resp) == FALSE

HasError(resp) == resp.body = "error"

\* The features of the service are numbered 1..n in the service's order.
ServiceFeatures(n) == [i \in 1..n |-> i]

Min(a, b) == IF a < b THEN a ELSE b

\* The page a well-behaved service answers at offset off: the slice of at
\* most size features starting there, and whether features remain beyond it.
ServicePage(n, off, size) ==
    LET last == Min(n, off + size)
        feats == IF off >= n THEN <<>> ELSE [i \in 1..(last - off) |-> off + i]
    IN  [features |-> feats, exceededTransferLimit |-> off + Len(feats) < n]

\* query(): `if not exceeded or not features: break`
QueryBreaks_EmptyOnly(page) == page.features = <<>>

QueryBreaks(page) == ~page.exceededTransferLimit \/ page.features = <<>>

\* query(): `offset += len(features)`
NextOffset_One(off, page) == off + 1

NextOffset(off, page) == off + Len(page.features)

\* query(url, params): payload defaults, items = [], offset from the payload,
\* then the first _request.
Query(off, size) ==
    /\ cpc \in {"idle", "returned", "raised"}
    /\ cpc' = "request"
    /\ start_offset' = off
    /\ page_size' = size
    /\ offset' = off
    /\ items' = <<>>
    /\ attempt' = 0
    /\ statuses' = <<>>
    /\ slept' = <<>>
    /\ round_trips' = 0
    /\ raised' = None
    /\ returned' = None
    /\ UNCHANGED noncvars
    /\ UNCHANGED <<max_retries, total_features>>

\* _request: session.post exceeds the timeout; requests raises Timeout, which
\* nothing in _request or query catches.
PostTimeout(resp) ==
    /\ cpc = "request"
    /\ TimedOut(resp)
    /\ attempt' = attempt + 1
    /\ statuses' = Append(statuses, resp)
    /\ cpc' = "raised"
    /\ raised' = "Timeout"
    /\ UNCHANGED noncvars
    /\ UNCHANGED <<max_retries, total_features, page_size, start_offset, offset,
                   items, slept, round_trips, returned>>

\* _request: one attempt answered with a retriable status.  Over budget the
\* HTTP error is raised and leaves query(); otherwise _sleep(attempt) is
\* called and the call waits in time.sleep.
PostRetriable(resp) ==
    /\ cpc = "request"
    /\ ~TimedOut(resp)
    /\ IsRetriable(resp.status)
    /\ attempt' = attempt + 1
    /\ statuses' = Append(statuses, resp)
    /\ IF BudgetExceeded(attempt', max_retries) /\ raise_for_status(resp.status)
       THEN /\ cpc' = "raised"
            /\ raised' = "HTTPError"
            /\ slept' = slept
       ELSE /\ cpc' = "sleep"
            /\ raised' = raised
            /\ slept' = Append(slept, attempt')
    /\ UNCHANGED noncvars
    /\ UNCHANGED <<max_retries, total_features, page_size, start_offset, offset,
                   items, round_trips, returned>>

\* _sleep: time.sleep returns, and `continue` takes _request to the
\* session.post of its next attempt.
TimeSleep ==
    /\ cpc = "sleep"
    /\ cpc' = "request"
    /\ UNCHANGED noncvars
    /\ UNCHANGED <<max_retries, total_features, page_size, start_offset, offset,
                   items, attempt, statuses, slept, round_trips, raised, returned>>

\* _request: one attempt answered with a failure status that is not retried:
\* response.raise_for_status() raises on this attempt.
PostHttpFailure(resp) ==
    /\ cpc = "request"
    /\ ~TimedOut(resp)
    /\ ~IsRetriable(resp.status)
    /\ raise_for_status(resp.status)
    /\ attempt' = attempt + 1
    /\ statuses' = Append(statuses, resp)
    /\ cpc' = "raised"
    /\ raised' = "HTTPError"
    /\ UNCHANGED noncvars
    /\ UNCHANGED <<max_retries, total_features, page_size, start_offset, offset,
                   items, slept, round_trips, returned>>

\* _request: a successful status whose body has an "error" member.
PostServiceError(resp) ==
    /\ cpc = "request"
    /\ ~TimedOut(resp)
    /\ ~IsRetriable(resp.status)
    /\ ~raise_for_status(resp.status)
    /\ HasError(resp)
    /\ attempt' = attempt + 1
    /\ statuses' = Append(statuses, resp)
    /\ cpc' = "raised"
    /\ raised' = "ArcGISError"
    /\ UNCHANGED noncvars
    /\ UNCHANGED <<max_retries, total_features, page_size, start_offset, offset,
                   items, slept, round_trips, returned>>

\* _request returns the page; query() appends its features and either
\* returns the items or goes on to the next offset with a fresh _request.
PostPage(resp) ==
    /\ cpc = "request"
    /\ ~TimedOut(resp)
    /\ ~IsRetriable(resp.status)
    /\ ~raise_for_status(resp.status)
    /\ ~HasError(resp)
    /\ LET page == ServicePage(total_features, offset, page_size)
       IN  /\ items' = items \o page.features
           /\ round_trips' = round_trips + 1
           /\ IF QueryBreaks(page)
              THEN /\ cpc' = "returned"
                   /\ returned' = items'
                   /\ offset' = offset
                   /\ attempt' = attempt + 1
                   /\ statuses' = Append(statuses, resp)
                   /\ slept' = slept
              ELSE /\ cpc' = "request"
                   /\ returned' = returned
                   /\ offset' = NextOffset(offset, page)
                   /\ attempt' = 0
                   /\ statuses' = <<>>
                   /\ slept' = <<>>
    /\ UNCHANGED noncvars
    /\ UNCHANGED <<max_retries, total_features, page_size, start_offset, raised>>

\* ------------------------------------------------------------------------
\* Python values
\* ------------------------------------------------------------------------

\* Truth value of an optional string: None and "" are falsy.
Truthy(s) == s \notin {None, ""}

\* `a or b` on optional strings.
Or(a, b) == IF Truthy(a) THEN a ELSE b

\* dict.get(k, default); a dict is a function on its keys.
Get(d, k, default) == IF k \in DOMAIN d THEN d[k] ELSE default

\* d[k] = v
Put(d, k, v) == [x \in (DOMAIN d) \cup {k} |-> IF x = k THEN v ELSE d[x]]

\* {}
EmptyDict == [x \in {} |-> None]

\* ------------------------------------------------------------------------
\* app/layers.py
\* ------------------------------------------------------------------------

STATE_NAME_MAPPING ==
    [x \in {"Andaman and Nicobar Islands", "Andhra Pradesh", "Arunachal Pradesh",
            "Assam", "Bihar", "Chandigarh", "Chhattisgarh",
            "Dadra and Nagar Haveli and Daman and Diu", "Delhi", "Goa",
            "Gujarat", "Haryana", "Himachal Pradesh", "Jammu and Kashmir",
            "Jharkhand", "Karnataka", "Kerala", "Ladakh", "Lakshadweep",
            "Madhya Pradesh", "Maharashtra", "Manipur", "Meghalaya", "Mizoram",
            "Nagaland", "Odisha", "Puducherry", "Punjab", "Rajasthan", "Sikkim",
            "Tamil Nadu", "Telangana", "Tripura", "Uttar Pradesh", "Uttarakhand",
            "West Bengal"} |->
        CASE x = "Andaman and Nicobar Islands" -> "AN"
          [] x = "Andhra Pradesh" -> "AP"
          [] x = "Arunachal Pradesh" -> "AR"
          [] x = "Assam" -> "AS"
          [] x = "Bihar" -> "BR"
          [] x = "Chandigarh" -> "CH"
          [] x = "Chhattisgarh" -> "CT"
          [] x = "Dadra and Nagar Haveli and Daman and Diu" -> "DN"
          [] x = "Delhi" -> "DL"
          [] x = "Goa" -> "GA"
          [] x = "Gujarat" -> "GJ"
          [] x = "Haryana" -> "HR"
          [] x = "Himachal Pradesh" -> "HP"
          [] x = "Jammu and Kashmir" -> "JK"
          [] x = "Jharkhand" -> "JH"
          [] x = "Karnataka" -> "KA"
          [] x = "Kerala" -> "KL"
          [] x = "Ladakh" -> "LA"
          [] x = "Lakshadweep" -> "LD"
          [] x = "Madhya Pradesh" -> "MP"
          [] x = "Maharashtra" -> "MH"
          [] x = "Manipur" -> "MN"
          [] x = "Meghalaya" -> "ML"
          [] x = "Mizoram" -> "MZ"
          [] x = "Nagaland" -> "NL"
          [] x = "Odisha" -> "OR"
          [] x = "Puducherry" -> "PY"
          [] x = "Punjab" -> "PB"
          [] x = "Rajasthan" -> "RJ"
          [] x = "Sikkim" -> "SK"
          [] x = "Tamil Nadu" -> "TN"
          [] x = "Telangana" -> "TG"
          [] x = "Tripura" -> "TR"
          [] x = "Uttar Pradesh" -> "UP"
          [] x = "Uttarakhand" -> "UT"
          [] x = "West Bengal" -> "WB"]

\* get_state_abbreviation: STATE_NAME_MAPPING.get(full_name)
get_state_abbreviation(full_name) == Get(STATE_NAME_MAPPING, full_name, None)

\* STATE_ABBREV_TO_FULL = {v: k for k, v in STATE_NAME_MAPPING.items()}
STATE_ABBREV_TO_FULL ==
    [c \in {STATE_NAME_MAPPING[n] : n \in DOMAIN STATE_NAME_MAPPING} |->
        CHOOSE n \in DOMAIN STATE_NAME_MAPPING : STATE_NAME_MAPPING[n] = c]

UpperCase ==
    <<"A", "B", "C", "D", "E", "F", "G", "H", "I", "J", "K", "L", "M",
      "N", "O", "P", "Q", "R", "S", "T", "U", "V", "W", "X", "Y", "Z">>

LowerCase ==
    <<"a", "b", "c", "d", "e", "f", "g", "h", "i", "j", "k", "l", "m",
      "n", "o", "p", "q", "r", "s", "t", "u", "v", "w", "x", "y", "z">>

\* str.upper, for a sequence of characters
upper_Keep(chars) == chars

upper(chars) ==
    [i \in DOMAIN chars |->
        IF \E k \in DOMAIN LowerCase : LowerCase[k] = chars[i]
        THEN UpperCase[CHOOSE k \in DOMAIN LowerCase : LowerCase[k] = chars[i]]
        ELSE chars[i]]

\* The string made of a sequence of characters.
RECURSIVE JoinChars(_)
JoinChars(chars) ==
    IF chars = <<>> THEN "" ELSE Head(chars) \o JoinChars(Tail(chars))

\* The characters of a string, in order.
Chars(text) == [i \in 1..Len(text) |-> SubSeq(text, i, i)]

\* str.lower, for a sequence of characters
lower(chars) ==
    [i \in DOMAIN chars |->
        IF \E k \in DOMAIN UpperCase : UpperCase[k] = chars[i]
        THEN LowerCase[CHOOSE k \in DOMAIN UpperCase : UpperCase[k] = chars[i]]
        ELSE chars[i]]

\* `phrase in text`, both sequences of characters
Contains(chars, phrase) ==
    \E i \in 0..(Len(chars) - Len(phrase)) :
        SubSeq(chars, i + 1, i + Len(phrase)) = phrase

Digits == {"0", "1", "2", "3", "4", "5", "6", "7", "8", "9"}

\* The blanks float() skips around a numeral, of the characters a string
\* of this module can hold: space, tab, line feed, form feed and carriage
\* return.  The vertical tab, the separators x1c to x1f and the blanks and
\* digits beyond ASCII, which float() takes as well, are in no text here.
Blanks == {" ", "\t", "\n", "\f", "\r"}

\* str.strip of the blanks around a sequence of characters
RECURSIVE strip(_)
strip(chars) ==
    IF chars = <<>> THEN chars
    ELSE IF Head(chars) \in Blanks THEN strip(Tail(chars))
    ELSE IF chars[Len(chars)] \in Blanks
    THEN strip(SubSeq(chars, 1, Len(chars) - 1))
    ELSE chars

\* The digits of a Python numeral: one digit or more, with single
\* underscores allowed between digits.
DigitPart(chars) ==
    /\ chars # <<>>
    /\ \A i \in DOMAIN chars : chars[i] \in Digits \cup {"_"}
    /\ chars[1] # "_"
    /\ chars[Len(chars)] # "_"
    /\ \A i \in 1..(Len(chars) - 1) : ~(chars[i] = "_" /\ chars[i + 1] = "_")

\* Digits with an optional point: 12, 12., .5, 12.5
PointNumeral(chars) ==
    \/ DigitPart(chars)
    \/ \E k \in DOMAIN chars :
          /\ chars[k] = "."
          /\ Len(chars) > 1
          /\ k = 1 \/ DigitPart(SubSeq(chars, 1, k - 1))
          /\ k = Len(chars) \/ DigitPart(SubSeq(chars, k + 1, Len(chars)))

Unsigned(chars) ==
    IF chars # <<>> /\ chars[1] \in {"+", "-"} THEN Tail(chars) ELSE chars

\* float(text) returns, and does not raise ValueError: blanks around an
\* optional sign and either inf, infinity or nan in any case or a numeral
\* with an optional exponent.
float_accepts(text) ==
    LET chars == Unsigned(strip(Chars(text)))
    IN  \/ JoinChars(lower(chars)) \in {"inf", "infinity", "nan"}
        \/ PointNumeral(chars)
        \/ \E k \in DOMAIN chars :
              /\ chars[k] \in {"e", "E"}
              /\ PointNumeral(SubSeq(chars, 1, k - 1))
              /\ DigitPart(Unsigned(SubSeq(chars, k + 1, Len(chars))))

\* get_state_full_name; the abbreviation is a sequence of characters.
get_state_full_name(abbreviation) ==
    Get(STATE_ABBREV_TO_FULL, JoinChars(upper(abbreviation)), None)

\* The sequences of at most two letters, which hold every string whose
\* upper-case form is a code of the table.
CodeLike == UNION {[1..n -> {UpperCase[k] : k \in DOMAIN UpperCase}
                           \cup {LowerCase[k] : k \in DOMAIN LowerCase}] : n \in 0..2}

\* get_state_full_name for an abbreviation given as a string
full_name_of(abbreviation) ==
    LET spelled == {chars \in CodeLike : JoinChars(chars) = abbreviation}
    IN  IF spelled = {} THEN None
        ELSE get_state_full_name(CHOOSE chars \in spelled : TRUE)

\* The Layer descriptors of the AOI hierarchy; there is no "block" layer.
AOI_LAYERS ==
    [x \in {"state", "district", "village"} |->
        CASE x = "state" ->
                [name |-> "state",
                 url |-> "https://services5.arcgis.com/73n8CSGpSSyHr1T9/arcgis/rest/services/state_boundary/FeatureServer/0",
                 name_field |-> "State_FSI", state_field |-> "State_FSI",
                 district_field |-> None, parent_field |-> None,
                 code_field |-> "State_Cens"]
          [] x = "district" ->
                [name |-> "district",
                 url |-> "https://services5.arcgis.com/73n8CSGpSSyHr1T9/arcgis/rest/services/district_boundary/FeatureServer/0",
                 name_field |-> "District", state_field |-> "State",
                 district_field |-> None, parent_field |-> None,
                 code_field |-> None]
          [] x = "village" ->
                [name |-> "village",
                 url |-> "https://livingatlas.esri.in/server/rest/services/IAB2024/IAB_Village_2024/MapServer/0",
                 name_field |-> "name", state_field |-> "State",
                 district_field |-> "district",
                 parent_field |-> "lgd_subdistrictcode",
                 code_field |-> "lgd_villagecode"]]

\* ------------------------------------------------------------------------
\* app/geo.py
\* ------------------------------------------------------------------------

\* No "geometry" member in a feature.
NoGeometry == [kind |-> "none"]

\* geometry_centroid.  A feature's geometry is an Esri ring set (here a
\* box given by two corners x1, y1, x2, y2), an Esri point x, y, or a
\* structure shape() rejects.  The result is an optional (lat, lon): <<>>
\* for None, else <<centroid.y, centroid.x>>.
geometry_centroid(feature) ==
    LET geometry == feature.geometry
    IN  IF geometry.kind = "none" THEN <<>>
        ELSE IF geometry.kind = "rings"
             THEN <<(geometry.y1 + geometry.y2) \div 2,
                    (geometry.x1 + geometry.x2) \div 2>>
        ELSE IF geometry.kind = "point" THEN <<geometry.y, geometry.x>>
        ELSE <<>>

\* ------------------------------------------------------------------------
\* The features the AOI layers can answer with
\* ------------------------------------------------------------------------

Attrs1(k1, v1) == [x \in {k1} |-> v1]

\* Coordinates are in units of 0.0001 degree.
StateGeometry ==
    [kind |-> "rings", y1 |-> 220000, y2 |-> 260000, x1 |-> 900000, x2 |-> 940000]

DistrictGeometry ==
    [kind |-> "rings", y1 |-> 220000, y2 |-> 240000, x1 |-> 900000, x2 |-> 920000]

VillageGeometry == [x |-> 930000, kind |-> "point", y |-> 250000]

StateFull ==
    [geometry |-> StateGeometry,
     attributes |-> [x \in {"State_FSI", "State_Name", "State_Cens", "GA_sqkm"} |->
                        CASE x = "State_FSI" -> "Tripura"
                          [] x = "State_Name" -> "TR"
                          [] x = "State_Cens" -> "16"
                          [] x = "GA_sqkm" -> "10486"]]

StateNameOnly ==
    [geometry |-> StateGeometry, attributes |-> Attrs1("State_FSI", "Tripura")]

StateBare == [geometry |-> NoGeometry, attributes |-> EmptyDict]

DistrictFull ==
    [geometry |-> DistrictGeometry,
     attributes |-> [x \in {"District", "State", "st_area_sh"} |->
                        CASE x = "District" -> "DHALAI"
                          [] x = "State" -> "TR"
                          [] x = "st_area_sh" -> "2400"]]

\* A district row whose area attribute holds text.
DistrictTextArea ==
    [geometry |-> DistrictGeometry,
     attributes |-> [x \in {"District", "State", "st_area_sh"} |->
                        CASE x = "District" -> "DHALAI"
                          [] x = "State" -> "TR"
                          [] x = "st_area_sh" -> "n/a"]]

DistrictBare == [geometry |-> [kind |-> "unknown"], attributes |-> EmptyDict]

VillageFull ==
    [geometry |-> VillageGeometry,
     attributes |-> [x \in {"name", "lgd_subdistrictcode", "lgd_villagecode"} |->
                        CASE x = "name" -> "SALEMA"
                          [] x = "lgd_subdistrictcode" -> "1234"
                          [] x = "lgd_villagecode" -> "5678"]]

VillageBare == [geometry |-> NoGeometry, attributes |-> EmptyDict]

LayerFeatures(layer_key) ==
    CASE layer_key = "state" -> {StateFull, StateNameOnly, StateBare}
      [] layer_key = "district" -> {DistrictFull, DistrictTextArea, DistrictBare}
      [] layer_key = "village" -> {VillageFull, VillageBare}
      [] OTHER -> {}

\* Exceptions client.query_by_where lets out (see SpecClient).
QueryErrors == {"HTTPError", "Timeout", "ArcGISError"}

\* What client.query_by_where does for one query on a layer: it raises, or
\* it returns a list of zero, one or two features of that layer.
QueryOutcomes(layer_key) ==
    {[raises |-> e, results |-> <<>>] : e \in QueryErrors}
    \cup {[raises |-> None, results |-> <<>>]}
    \cup {[raises |-> None, results |-> <<f>>] : f \in LayerFeatures(layer_key)}
    \cup {[raises |-> None, results |-> <<f, g>>] :
            f \in LayerFeatures(layer_key) \cap {StateNameOnly, DistrictBare, VillageFull},
            g \in LayerFeatures(layer_key) \cap {StateFull, DistrictFull, VillageBare}}

\* An outcome for a level that sends no query.
NoQuery == [raises |-> None, results |-> <<>>]

\* The names callers pass for each level.
StateArgs == {None, "", "Tripura", "tripura"}

DistrictArgs == {None, "", "Dhalai"}

BlockArgs == {None, "", "Salema"}

VillageArgs == {None, "", "Salema"}

\* ------------------------------------------------------------------------
\* app/indicators.py: AOI resolution
\* ------------------------------------------------------------------------

\* Order of the hierarchy levels below the state.
NextLevel(layer_key) ==
    CASE layer_key = "state" -> "district"
      [] layer_key = "district" -> "block"
      [] layer_key = "block" -> "village"

\* resolve_aoi: `if not state`
StateMissing_NoneOnly(s) == s = None

StateMissing(s) == ~Truthy(s)

\* _resolve_feature: `except Exception` around client.query_by_where
CatchesQueryError_ServiceOnly(e) == e = "ArcGISError"

CatchesQueryError(e) == e \in QueryErrors

\* _resolve_feature: the (field, value) pairs handed to _eq_clause, in the
\* order they are joined with AND; the empty list stands for "1=1".
where_clauses(layer_key, name, ctx) ==
    LET layer == AOI_LAYERS[layer_key]
        by_name ==
            IF Truthy(name) /\ Truthy(layer.name_field)
            THEN <<[field |-> layer.name_field, value |-> name]>> ELSE <<>>
        state_full == Or(Get(ctx, "state_name_full", None), Get(ctx, "state_name", None))
        state_abbrev == Get(ctx, "state_name_abbrev", None)
        state_value ==
            IF Truthy(state_abbrev) /\ Len(state_abbrev) = 2
            THEN state_abbrev ELSE state_full
        by_state ==
            IF Truthy(layer.state_field) /\ layer_key # "state" /\ Truthy(state_value)
            THEN <<[field |-> layer.state_field, value |-> state_value]>> ELSE <<>>
        district_name == Get(ctx, "district_name", None)
        by_district ==
            IF Truthy(layer.district_field) /\ Truthy(district_name)
               /\ layer_key \notin {"state", "district"}
            THEN <<[field |-> layer.district_field, value |-> district_name]>> ELSE <<>>
        parent_value ==
            IF Truthy(layer.parent_field) THEN Get(ctx, layer.parent_field, None) ELSE None
        by_parent ==
            IF Truthy(layer.parent_field) /\ Truthy(parent_value)
            THEN <<[field |-> layer.parent_field, value |-> parent_value]>> ELSE <<>>
    IN  by_name \o by_state \o by_district \o by_parent

\* The query _resolve_feature sends for a level, with what came back: the
\* exception raised (or None) and the number of features returned.
QueryFor(layer_key, name, ctx, outcome) ==
    [url |-> AOI_LAYERS[layer_key].url,
     layer_key |-> layer_key,
     raises |-> outcome.raises,
     where |-> where_clauses(layer_key, name, ctx),
     count |-> Len(outcome.results)]

\* _resolve_feature: the optional feature it returns for a query outcome.
resolve_feature_first(layer_key, outcome) ==
    IF layer_key \notin DOMAIN AOI_LAYERS THEN <<>>
    ELSE IF outcome.raises # None THEN <<>>
    ELSE IF outcome.results = <<>> THEN <<>>
    ELSE <<outcome.results[1]>>

\* str(value) for an attribute of an AOI feature: the attributes are held
\* as the text str() gives for them, which str() returns as it is.
str(value) == value

\* _update_context
update_context(layer_key, feature, fallback_name, ctx) ==
    LET layer == AOI_LAYERS[layer_key]
        attrs == feature.attributes
        name_value ==
            IF Truthy(layer.name_field) THEN Get(attrs, layer.name_field, None) ELSE None
        resolved_name == Or(name_value, fallback_name)
        c1 == Put(ctx, layer_key \o "_name", resolved_name)
        full_name0 == Or(Get(attrs, "State_FSI", None), resolved_name)
        abbrev0 == Get(attrs, "State_Name", None)
        abbrev ==
            IF Truthy(full_name0) /\ ~Truthy(abbrev0)
            THEN get_state_abbreviation(full_name0) ELSE abbrev0
        full_name ==
            IF Truthy(abbrev) /\ ~Truthy(full_name0)
            THEN full_name_of(abbrev) ELSE full_name0
        c2 == IF layer_key = "state"
              THEN Put(Put(Put(c1, "state_name_full", full_name),
                           "state_name_abbrev", abbrev),
                       "state_name", full_name)
              ELSE c1
        code_value ==
            IF Truthy(layer.code_field) THEN Get(attrs, layer.code_field, None) ELSE None
        c3 == IF Truthy(layer.code_field) /\ code_value # None
              THEN Put(c2, layer_key \o "_code", str(code_value)) ELSE c2
        parent_value ==
            IF Truthy(layer.parent_field) THEN Get(attrs, layer.parent_field, None) ELSE None
        c4 == IF Truthy(layer.parent_field) /\ parent_value # None
              THEN Put(c3, layer.parent_field, str(parent_value)) ELSE c3
    IN  c4

\* _select_best_feature: the first level, most specific first, that has a
\* feature; "" when there is none (the code raises ValueError).
select_best_feature_Coarsest(fv, fb, fd, fs) ==
    IF fs # <<>> THEN "state"
    ELSE IF fd # <<>> THEN "district"
    ELSE IF fb # <<>> THEN "block"
    ELSE IF fv # <<>> THEN "village"
    ELSE ""

select_best_feature(fv, fb, fd, fs) ==
    IF fv # <<>> THEN "village"
    ELSE IF fb # <<>> THEN "block"
    ELSE IF fd # <<>> THEN "district"
    ELSE IF fs # <<>> THEN "state"
    ELSE ""

\* The notes resolve_aoi appends for a level that was asked for and is missing.
NotFoundNote(layer_key, name) ==
    CASE layer_key = "district" ->
            "District '" \o name \o "' not found; using state boundary for calculations."
      [] layer_key = "block" ->
            "Block \"" \o name \o "\" not found; using higher-level boundary."
      [] layer_key = "village" ->
            "Village \"" \o name \o "\" not found; using higher-level boundary."

NotConfiguredNote_District(layer_key) ==
    "District layer not configured; using state boundary."

NotConfiguredNote(layer_key) ==
    CASE layer_key = "district" -> "District layer not configured; using state boundary."
      [] layer_key = "block" -> "Block layer not configured; skipping."
      [] layer_key = "village" -> "Village layer not configured; skipping."

ResolvedAtNote(best_layer_key) ==
    "AOI geometry resolved at " \o best_layer_key \o " level."

\* resolve_aoi: `if best_layer_key != "village"`, the test that decides
\* whether the note about the level of the geometry is appended.
BestLevelNoted_Always(best_layer_key) == TRUE

BestLevelNoted(best_layer_key) == best_layer_key # "village"

\* A level below the state sends a query when its name is given and its
\* layer is registered.
SendsQuery(layer_key, name) == Truthy(name) /\ layer_key \in DOMAIN AOI_LAYERS

\* resolve_aoi, one of the district, block and village blocks: the feature
\* found, and the context, notes and queries after the block.
LevelBlock_Silent(layer_key, name, outcome, ctx, notes, qs) ==
    IF ~Truthy(name)
    THEN [context |-> ctx, queries |-> qs, feature |-> <<>>, notes |-> notes]
    ELSE IF layer_key \in DOMAIN AOI_LAYERS
    THEN LET feature == resolve_feature_first(layer_key, outcome)
         IN  [context |-> IF feature # <<>>
                          THEN update_context(layer_key, feature[1], name, ctx)
                          ELSE ctx,
              queries |-> Append(qs, QueryFor(layer_key, name, ctx, outcome)),
              feature |-> feature,
              notes |-> notes]
    ELSE [context |-> ctx, queries |-> qs,
          feature |-> <<>>, notes |-> Append(notes, NotConfiguredNote(layer_key))]

LevelBlock(layer_key, name, outcome, ctx, notes, qs) ==
    IF ~Truthy(name)
    THEN [context |-> ctx, queries |-> qs, feature |-> <<>>, notes |-> notes]
    ELSE IF layer_key \in DOMAIN AOI_LAYERS
    THEN LET feature == resolve_feature_first(layer_key, outcome)
         IN  [context |-> IF feature # <<>>
                          THEN update_context(layer_key, feature[1], name, ctx)
                          ELSE ctx,
              queries |-> Append(qs, QueryFor(layer_key, name, ctx, outcome)),
              feature |-> feature,
              notes |-> IF feature # <<>> THEN notes
                        ELSE Append(notes, NotFoundNote(layer_key, name))]
    ELSE [context |-> ctx, queries |-> qs,
          feature |-> <<>>, notes |-> Append(notes, NotConfiguredNote(layer_key))]

\* An exception of the query that _resolve_feature does not catch.
Propagates(layer_key, name, outcome) ==
    /\ SendsQuery(layer_key, name)
    /\ outcome.raises # None
    /\ ~CatchesQueryError(outcome.raises)

\* resolve_aoi: additional_attrs of the best feature.
additional_attrs(best_feature, best_layer_key) ==
    LET attrs == best_feature.attributes
        a1 == IF best_layer_key = "state" /\ "GA_sqkm" \in DOMAIN attrs
              THEN Put(EmptyDict, "geographic_area_sqkm", attrs["GA_sqkm"])
              ELSE EmptyDict
        a2 == IF best_layer_key = "state" /\ "State_Cens" \in DOMAIN attrs
              THEN Put(a1, "state_census_code", attrs["State_Cens"])
              ELSE a1
        a3 == IF best_layer_key = "district" /\ "st_area_sh" \in DOMAIN attrs
              THEN Put(a2, "area_sqkm", attrs["st_area_sh"])
              ELSE a2
    IN  a3

\* resolve_aoi: the arguments of AOI(...) at the end of the call, made from
\* the context and the best feature; AOIValid tells whether the constructor
\* takes them.  Coordinates are in units of 0.0001 degree; an optional coordinate is <<>>
\* for None and <<c>> otherwise.
BuildAOI(s, d, b, v, ctx, best_feature, best_layer_key) ==
    LET centroid == geometry_centroid(best_feature)
        extra == additional_attrs(best_feature, best_layer_key)
    IN  [state |-> Get(ctx, "state_name", s),
         district |-> Get(ctx, "district_name", Or(d, "N/A")),
         block |-> Get(ctx, "block_name", Or(b, "N/A")),
         village |-> Get(ctx, "village_name", Or(v, "N/A")),
         centroid_lat |-> IF centroid # <<>> THEN <<centroid[1]>> ELSE <<>>,
         centroid_lon |-> IF centroid # <<>> THEN <<centroid[2]>> ELSE <<>>,
         source_layer |-> AOI_LAYERS[best_layer_key].url,
         area_sqkm |-> Get(extra, "area_sqkm", None),
         census_code |-> Get(extra, "state_census_code", None),
         additional_attributes |-> extra]

\* resolve_aoi in stub mode: the fixed AOI.
StubAOI(s, d, b, v) ==
    [state |-> s,
     district |-> d,
     block |-> Or(b, "N/A"),
     village |-> Or(v, "N/A"),
     centroid_lat |-> <<171234>>,
     centroid_lon |-> <<785432>>,
     source_layer |-> "stub",
     area_sqkm |-> None,
     census_code |-> None,
     additional_attributes |-> EmptyDict]

\* app/model.py AOI: the constructor returns, and does not raise
\* ValidationError.  state, district, block and village are required str
\* fields, for which pydantic rejects None; area_sqkm is an Optional[float],
\* for which it rejects what float() rejects.
AOIValid(a) ==
    /\ a.state # None /\ a.district # None /\ a.block # None /\ a.village # None
    /\ a.area_sqkm = None \/ float_accepts(a.area_sqkm)

NoError == [type |-> None, message |-> None]

\* resolve_aoi(state, district, block, village) up to its first query:
\* the state check, stub mode, and the reset of the notes and the context.
ResolveAoi(s, d, b, v) ==
    /\ rpc \in {"idle", "returned", "raised"}
    /\ state' = s
    /\ district' = d
    /\ block' = b
    /\ village' = v
    /\ context' = EmptyDict
    /\ state_feature' = <<>>
    /\ district_feature' = <<>>
    /\ block_feature' = <<>>
    /\ village_feature' = <<>>
    /\ queries' = <<>>
    /\ IF StateMissing(s)
       THEN /\ rpc' = "raised"
            /\ error' = [type |-> "ValueError",
                         message |-> "State is required to resolve an AOI."]
            /\ aoi' = <<>>
            /\ UNCHANGED last_resolution_notes
       ELSE IF stub_mode
       THEN /\ IF AOIValid(StubAOI(s, d, b, v))
               THEN /\ rpc' = "returned"
                    /\ aoi' = <<StubAOI(s, d, b, v)>>
                    /\ error' = NoError
               ELSE /\ rpc' = "raised"
                    /\ aoi' = <<>>
                    /\ error' = [type |-> "ValidationError", message |-> "AOI"]
            /\ UNCHANGED last_resolution_notes
       ELSE /\ rpc' = "state"
            /\ aoi' = <<>>
            /\ error' = NoError
            /\ last_resolution_notes' = <<>>
    /\ UNCHANGED stub_mode
    /\ UNCHANGED nonrvars

\* resolve_aoi, the state level: the state query and what follows from its
\* outcome; no state feature is a ValueError.
ResolveState(outcome) ==
    /\ rpc = "state"
    /\ queries' = Append(queries, QueryFor("state", state, context, outcome))
    /\ IF Propagates("state", state, outcome)
       THEN /\ rpc' = "raised"
            /\ error' = [type |-> outcome.raises, message |-> "query"]
            /\ UNCHANGED <<context, state_feature>>
       ELSE LET feature == resolve_feature_first("state", outcome)
            IN  IF feature = <<>>
                THEN /\ rpc' = "raised"
                     /\ error' = [type |-> "ValueError",
                                  message |-> "State '" \o state \o "' not found."]
                     /\ UNCHANGED <<context, state_feature>>
                ELSE /\ rpc' = "district"
                     /\ error' = error
                     /\ state_feature' = feature
                     /\ context' = update_context("state", feature[1], state, context)
    /\ UNCHANGED <<stub_mode, last_resolution_notes, state, district, block,
                   village, district_feature, block_feature, village_feature, aoi>>
    /\ UNCHANGED nonrvars

\* resolve_aoi, the district block.
ResolveDistrict(outcome) ==
    /\ rpc = "district"
    /\ IF Propagates("district", district, outcome)
       THEN /\ rpc' = "raised"
            /\ error' = [type |-> outcome.raises, message |-> "query"]
            /\ queries' = Append(queries, QueryFor("district", district, context, outcome))
            /\ UNCHANGED <<context, district_feature, last_resolution_notes>>
       ELSE LET r == LevelBlock("district", district, outcome, context,
                                last_resolution_notes, queries)
            IN  /\ rpc' = NextLevel("district")
                /\ error' = error
                /\ district_feature' = r.feature
                /\ context' = r.context
                /\ last_resolution_notes' = r.notes
                /\ queries' = r.queries
    /\ UNCHANGED <<stub_mode, state, district, block, village, state_feature,
                   block_feature, village_feature, aoi>>
    /\ UNCHANGED nonrvars

\* resolve_aoi, the block block.
ResolveBlock(outcome) ==
    /\ rpc = "block"
    /\ IF Propagates("block", block, outcome)
       THEN /\ rpc' = "raised"
            /\ error' = [type |-> outcome.raises, message |-> "query"]
            /\ queries' = Append(queries, QueryFor("block", block, context, outcome))
            /\ UNCHANGED <<context, block_feature, last_resolution_notes>>
       ELSE LET r == LevelBlock("block", block, outcome, context,
                                last_resolution_notes, queries)
            IN  /\ rpc' = NextLevel("block")
                /\ error' = error
                /\ block_feature' = r.feature
                /\ context' = r.context
                /\ last_resolution_notes' = r.notes
                /\ queries' = r.queries
    /\ UNCHANGED <<stub_mode, state, district, block, village, state_feature,
                   district_feature, village_feature, aoi>>
    /\ UNCHANGED nonrvars

\* resolve_aoi, the village block and the rest of the call: the best
\* feature, the note about its level, the centroid and the AOI, whose
\* constructor raises ValidationError for fields it does not take.
ResolveVillage(outcome) ==
    /\ rpc = "village"
    /\ IF Propagates("village", village, outcome)
       THEN /\ rpc' = "raised"
            /\ error' = [type |-> outcome.raises, message |-> "query"]
            /\ queries' = Append(queries, QueryFor("village", village, context, outcome))
            /\ UNCHANGED <<context, village_feature, last_resolution_notes, aoi>>
       ELSE LET r == LevelBlock("village", village, outcome, context,
                                last_resolution_notes, queries)
                best_layer_key == select_best_feature(r.feature, block_feature,
                                                      district_feature, state_feature)
                best_feature ==
                    CASE best_layer_key = "village" -> r.feature[1]
                      [] best_layer_key = "block" -> block_feature[1]
                      [] best_layer_key = "district" -> district_feature[1]
                      [] best_layer_key = "state" -> state_feature[1]
            IN  /\ village_feature' = r.feature
                /\ context' = r.context
                /\ queries' = r.queries
                /\ IF best_layer_key = ""
                   THEN /\ rpc' = "raised"
                        /\ error' = [type |-> "ValueError",
                                     message |-> "AOI resolution failed; no matching features found."]
                        /\ last_resolution_notes' = r.notes
                        /\ aoi' = aoi
                   ELSE /\ last_resolution_notes' =
                               IF BestLevelNoted(best_layer_key)
                               THEN Append(r.notes, ResolvedAtNote(best_layer_key))
                               ELSE r.notes
                        /\ \E built \in {BuildAOI(state, district, block, village,
                                                  r.context, best_feature,
                                                  best_layer_key)} :
                              IF AOIValid(built)
                              THEN /\ rpc' = "returned"
                                   /\ error' = error
                                   /\ aoi' = <<built>>
                              ELSE /\ rpc' = "raised"
                                   /\ error' = [type |-> "ValidationError",
                                                message |-> "AOI"]
                                   /\ aoi' = aoi
    /\ UNCHANGED <<stub_mode, state, district, block, village, state_feature,
                   district_feature, block_feature>>
    /\ UNCHANGED nonrvars

\* ------------------------------------------------------------------------
\* app/indicators.py: _eq_clause.  Its strings are sequences of characters.
\* ------------------------------------------------------------------------

Quote == "'"

\* Python's str.replace for a pattern of one character.
RECURSIVE replace(_, _, _)
replace(value, old, new) ==
    IF value = <<>> THEN <<>>
    ELSE (IF Head(value) = old THEN new ELSE <<Head(value)>>)
         \o replace(Tail(value), old, new)

\* _eq_clause: safe_value
safe_value_Raw(value) == value

safe_value(value) == replace(value, Quote, <<Quote, Quote>>)

\* _eq_clause: f"UPPER({field}) = UPPER('{safe_value}')"
eq_clause(field, value) ==
    <<"U", "P", "P", "E", "R", "(">> \o field
    \o <<")", " ", "=", " ", "U", "P", "P", "E", "R", "(", Quote>>
    \o safe_value(value) \o <<Quote, ")">>

\* The name fields of the village and district layers, and the names tried.
EqFields == {<<"n", "a", "m", "e">>, <<"D", "i", "s", "t", "r", "i", "c", "t">>}

NameChars == {"O", "b", " ", Quote}

EqNames == UNION {[1..n -> NameChars] : n \in 0..MaxNameLen}

\* A call of _eq_clause(ec_field, ec_value) returns.
EqClause ==
    /\ ec_clause = <<>>
    /\ ec_clause' = eq_clause(ec_field, ec_value)
    /\ UNCHANGED <<ec_field, ec_value>>
    /\ UNCHANGED nonevars

EscapeIdle ==
    /\ ec_field = <<>>
    /\ ec_value = <<>>
    /\ ec_clause = <<>>

\* ------------------------------------------------------------------------
\* app/arcgis.py: _sleep.  Times are in milliseconds.
\* ------------------------------------------------------------------------

\* ArcGISClient.backoff_factor: float = 0.6
DefaultBackoff == 600

BackoffFactors == {DefaultBackoff, 100}

RECURSIVE Pow2(_)
Pow2(n) == IF n = 0 THEN 1 ELSE 2 * Pow2(n - 1)

\* _sleep: base
sleep_base(factor, att) == factor * Pow2(att - 1)

\* _sleep: the values random.uniform(0, base / 2) can return.  It computes
\* 0 + (base / 2) * random() with random() in [0, 1), and the rounded
\* product stays below base / 2.
uniform_jitter_UpToBase(base) == 0..base

uniform_jitter(base) == 0..(base \div 2 - 1)

\* A call of _sleep(sleep_attempt) reaches time.sleep.
Sleep(jitter) ==
    /\ sleep_attempt >= 1
    /\ sleep_delay = 0
    /\ jitter \in uniform_jitter(sleep_base(backoff_factor, sleep_attempt))
    /\ sleep_delay' = sleep_base(backoff_factor, sleep_attempt) + jitter
    /\ UNCHANGED <<backoff_factor, sleep_attempt>>
    /\ UNCHANGED nonsvars

SleepIdle ==
    /\ sleep_attempt = 0
    /\ sleep_delay = 0

\* ------------------------------------------------------------------------
\* app/layers.py: the state table in both directions
\* ------------------------------------------------------------------------

Letters == {UpperCase[k] : k \in DOMAIN UpperCase} \cup {LowerCase[k] : k \in DOMAIN LowerCase}

AbbreviationArgs == UNION {[1..n -> Letters] : n \in 0..MaxCodeLen}

FullNameArgs == DOMAIN STATE_NAME_MAPPING \cup {"", "tripura", "TRIPURA", "TR", "Atlantis"}

TableCalls ==
    [fn : {"get_state_abbreviation"}, arg : FullNameArgs]
    \cup [fn : {"get_state_full_name"}, arg : AbbreviationArgs]

\* The lookup called returns; st_result is <<>> before and <<r>> after.
GetStateAbbreviation ==
    /\ st_call.fn = "get_state_abbreviation"
    /\ st_result = <<>>
    /\ st_result' = <<get_state_abbreviation(st_call.arg)>>
    /\ UNCHANGED st_call
    /\ UNCHANGED nontvars

GetStateFullName ==
    /\ st_call.fn = "get_state_full_name"
    /\ st_result = <<>>
    /\ st_result' = <<get_state_full_name(st_call.arg)>>
    /\ UNCHANGED st_call
    /\ UNCHANGED nontvars

TableIdle ==
    /\ st_call = [fn |-> None, arg |-> None]
    /\ st_result = <<>>

\* ------------------------------------------------------------------------
\* app/geo.py: haversine_km and min_distance_km
\* ------------------------------------------------------------------------

\* haversine_km at the sample points, rounded to metres; the points are
\* (lat, lon) in units of 0.0001 degree.
HAVERSINE_METRES ==
    <<100000, 100000, 100000, 100000>> :> 0 @@
    <<100000, 100000, 101000, 101000>> :> 15605 @@
    <<100000, 100000, 110000, 110000>> :> 155941 @@
    <<100000, 100000, 286139, 772090>> :> 7259723 @@
    <<100000, 100000, 190760, 728777>> :> 6810160 @@
    <<101000, 101000, 100000, 100000>> :> 15605 @@
    <<101000, 101000, 101000, 101000>> :> 0 @@
    <<101000, 101000, 110000, 110000>> :> 140336 @@
    <<101000, 101000, 286139, 772090>> :> 7244920 @@
    <<101000, 101000, 190760, 728777>> :> 6796525 @@
    <<110000, 110000, 100000, 100000>> :> 155941 @@
    <<110000, 110000, 101000, 101000>> :> 140336 @@
    <<110000, 110000, 110000, 110000>> :> 0 @@
    <<110000, 110000, 286139, 772090>> :> 7111986 @@
    <<110000, 110000, 190760, 728777>> :> 6674300 @@
    <<286139, 772090, 100000, 100000>> :> 7259723 @@
    <<286139, 772090, 101000, 101000>> :> 7244920 @@
    <<286139, 772090, 110000, 110000>> :> 7111986 @@
    <<286139, 772090, 286139, 772090>> :> 0 @@
    <<286139, 772090, 190760, 728777>> :> 1148096 @@
    <<190760, 728777, 100000, 100000>> :> 6810160 @@
    <<190760, 728777, 101000, 101000>> :> 6796525 @@
    <<190760, 728777, 110000, 110000>> :> 6674300 @@
    <<190760, 728777, 286139, 772090>> :> 1148096 @@
    <<190760, 728777, 190760, 728777>> :> 0

GeoPoints ==
    {<<100000, 100000>>, <<101000, 101000>>, <<110000, 110000>>,
     <<286139, 772090>>, <<190760, 728777>>}

haversine_km(lat1, lon1, lat2, lon2) == HAVERSINE_METRES[<<lat1, lon1, lat2, lon2>>]

\* Python's min over a non-empty list.
py_min_First(values) == values[1]

py_min(values) ==
    CHOOSE v \in {values[i] : i \in DOMAIN values} :
        \A i \in DOMAIN values : v <= values[i]

min_distance_km(base, points) ==
    LET distances == [i \in DOMAIN points |->
                         haversine_km(base[1], base[2], points[i][1], points[i][2])]
    IN  IF distances = <<>> THEN <<>> ELSE <<py_min(distances)>>

PointLists == UNION {[1..n -> GeoPoints] : n \in 0..MaxPoints}

\* A call of min_distance_km(md_base, md_points) returns; md_result is <<>>
\* before and <<r>> after, r being <<>> for None and <<d>> for a distance.
MinDistanceKm ==
    /\ md_base # <<>>
    /\ md_result = <<>>
    /\ md_result' = <<min_distance_km(md_base, md_points)>>
    /\ UNCHANGED <<md_base, md_points>>
    /\ UNCHANGED nongvars

GeoIdle ==
    /\ md_base = <<>>
    /\ md_points = <<>>
    /\ md_result = <<>>

\* ------------------------------------------------------------------------
\* Python floats (IEEE 754 binary64) as the indicator code computes with
\* them.  A float is a sign and a magnitude; the magnitude is a fixed-point
\* number of twelve limbs of 15 bits, most significant first, three before
\* the binary point and nine after it.  Every operation gives the exact
\* result rounded to 53 significant bits, halves to the even mantissa.  The
\* floats of the indicators are made of counts below 2^31 and of levels in
\* hundredths: their sums and differences are multiples of 2^-59, and a
\* quotient by a count up to 2^16 has its 53 bits above 2^-128, inside the
\* 135 bits after the point.
\* ------------------------------------------------------------------------

LimbBase == Pow2(15)

\* The limbs before the binary point, and all of them.
IntLimbs == 1..3

Limbs == 1..12

ZeroMag == [i \in Limbs |-> 0]

LastLimb == Len(ZeroMag)

\* The magnitude of an integer 0 <= n < 2^31.
IntMag(n) ==
    [i \in Limbs |->
        CASE i = 1 -> n \div (LimbBase * LimbBase)
          [] i = 2 -> (n \div LimbBase) % LimbBase
          [] i = 3 -> n % LimbBase
          [] OTHER -> 0]

\* -1, 0 or 1 as a is below, equal to or above b.
MagCmp(a, b) ==
    LET differ == {i \in Limbs : a[i] # b[i]}
    IN  IF differ = {} THEN 0
        ELSE LET i == CHOOSE k \in differ : \A o \in differ : k <= o
             IN  IF a[i] > b[i] THEN 1 ELSE 0 - 1

\* a + b
RECURSIVE AddCarry(_, _, _)
AddCarry(a, b, i) ==
    IF i = LastLimb THEN 0
    ELSE (a[i + 1] + b[i + 1] + AddCarry(a, b, i + 1)) \div LimbBase

MagAdd(a, b) == [i \in Limbs |-> (a[i] + b[i] + AddCarry(a, b, i)) % LimbBase]

\* a - b, for a >= b
RECURSIVE SubBorrow(_, _, _)
SubBorrow(a, b, i) ==
    IF i = LastLimb THEN 0
    ELSE IF a[i + 1] - b[i + 1] - SubBorrow(a, b, i + 1) < 0 THEN 1 ELSE 0

MagSub(a, b) ==
    [i \in Limbs |-> (a[i] - b[i] - SubBorrow(a, b, i) + LimbBase) % LimbBase]

\* a * m, for an integer 0 <= m <= 2^15
RECURSIVE MulCarry(_, _, _)
MulCarry(a, m, i) ==
    IF i = LastLimb THEN 0
    ELSE (a[i + 1] * m + MulCarry(a, m, i + 1)) \div LimbBase

MagMul(a, m) == [i \in Limbs |-> (a[i] * m + MulCarry(a, m, i)) % LimbBase]

\* a / n for an integer 0 < n <= 2^16: the remainder left after limb i, the
\* quotient cut off after the last limb, and whether anything was cut off.
RECURSIVE DivRem(_, _, _)
DivRem(a, n, i) ==
    IF i = 0 THEN 0 ELSE (DivRem(a, n, i - 1) * LimbBase + a[i]) % n

MagDiv(a, n) ==
    [i \in Limbs |-> (DivRem(a, n, i - 1) * LimbBase + a[i]) \div n]

DivInexact(a, n) == DivRem(a, n, LastLimb) # 0

\* The number of bits of a limb x > 0.
BitLen(x) == CHOOSE k \in 1..15 : Pow2(k - 1) <= x /\ x < Pow2(k)

\* The first limb of a magnitude m # 0 that is not 0.
TopLimb(m) == CHOOSE t \in Limbs : m[t] # 0 /\ \A i \in 1..(t - 1) : m[i] = 0

\* The 53 significant bits of m end inside limb c, after its first r bits
\* (r = 0: with the last bit of limb c - 1).  `unit` is the weight the last
\* kept bit has in limb c.
RoundAt(m, sticky, c, r) ==
    LET unit == Pow2(15 - r)
        low == m[c] % unit
        rest == sticky \/ \E i \in (c + 1)..LastLimb : m[i] # 0
        kept_odd == IF r = 0 THEN m[c - 1] % 2 = 1 ELSE (m[c] \div unit) % 2 = 1
        up == \/ 2 * low > unit
              \/ 2 * low = unit /\ (rest \/ kept_odd)
        kept == [i \in Limbs |->
                    IF i < c THEN m[i] ELSE IF i = c THEN m[c] - low ELSE 0]
        one == [i \in Limbs |->
                    IF r = 0 THEN (IF i = c - 1 THEN 1 ELSE 0)
                    ELSE (IF i = c THEN unit ELSE 0)]
    IN  IF up THEN MagAdd(kept, one) ELSE kept

\* m, with `sticky` telling that digits beyond the last limb were cut off,
\* rounded to 53 significant bits.
RoundCut(m, sticky, t, len) ==
    LET c == t + (53 - len) \div 15 + 1
    IN  IF c > LastLimb THEN m ELSE RoundAt(m, sticky, c, (53 - len) % 15)

RoundMag(m, sticky) ==
    IF m = ZeroMag THEN m
    ELSE CHOOSE x \in {RoundCut(m, sticky, t, BitLen(m[t])) : t \in {TopLimb(m)}} : TRUE

\* A float of a sign and a magnitude; the zero is +0.0.
Float(neg, mag) == [neg |-> neg /\ mag # ZeroMag, mag |-> mag]

\* float('nan'): the float that is no number has no magnitude.
NaNFloat == [neg |-> FALSE, mag |-> <<>>]

IsNaN(x) == x.mag = <<>>

\* float('nan') where a number n is held as <<n>>: the pair of the
\* quotient 0/0, equal to no <<n>>.
NaN == <<0, 0>>

\* n / d correctly rounded, for integers n and 0 < d <= 2^16: float(n) for
\* d = 1, the float a decimal literal in hundredths denotes for d = 100,
\* and the true division n / d of two ints.
FromRatioMag(neg, m, d) == Float(neg, RoundMag(MagDiv(m, d), DivInexact(m, d)))

FromRatio(n, d) ==
    CHOOSE x \in {FromRatioMag(n < 0, m, d) : m \in {IntMag(IF n < 0 THEN 0 - n ELSE n)}} : TRUE

\* x + y on values
FAddV(x, y) ==
    IF IsNaN(x) \/ IsNaN(y) THEN NaNFloat
    ELSE IF x.neg = y.neg THEN Float(x.neg, RoundMag(MagAdd(x.mag, y.mag), FALSE))
    ELSE IF MagCmp(x.mag, y.mag) >= 0
    THEN Float(x.neg, RoundMag(MagSub(x.mag, y.mag), FALSE))
    ELSE Float(y.neg, RoundMag(MagSub(y.mag, x.mag), FALSE))

FAdd(x, y) == CHOOSE z \in {FAddV(xv, yv) : xv \in {x}, yv \in {y}} : TRUE

\* x - y
FSub(x, y) == CHOOSE z \in {FAddV(xv, Float(~yv.neg, yv.mag)) : xv \in {x}, yv \in {y}} : TRUE

\* x / n for an int 0 < n <= 2^16
FDivInt(x, n) ==
    IF IsNaN(x) THEN NaNFloat
    ELSE CHOOSE z \in {Float(xv.neg, RoundMag(MagDiv(xv.mag, n), DivInexact(xv.mag, n)))
                       : xv \in {x}} : TRUE

\* x * m for an int 0 <= m <= 2^15
FMulInt(x, m) ==
    IF IsNaN(x) THEN NaNFloat
    ELSE CHOOSE z \in {Float(xv.neg, RoundMag(MagMul(xv.mag, m), FALSE)) : xv \in {x}} : TRUE

\* x >= y, false when either is NaN
FGe(x, y) ==
    IF IsNaN(x) \/ IsNaN(y) THEN FALSE
    ELSE IF x.neg # y.neg THEN y.neg
    ELSE IF x.neg THEN MagCmp(x.mag, y.mag) <= 0
    ELSE MagCmp(x.mag, y.mag) >= 0

\* bool(x): only the zero is false, so NaN is true
FTruthy(x) == x.mag # ZeroMag

\* round(x, 2) in hundredths: the decimal of two places nearest to the
\* exact value of x, a half going to the even one.
Round2Mag(neg, y) ==
    LET whole == (y[1] * LimbBase + y[2]) * LimbBase + y[3]
        rest == \E i \in 5..LastLimb : y[i] # 0
        up == \/ 2 * y[4] > LimbBase
              \/ 2 * y[4] = LimbBase /\ (rest \/ whole % 2 = 1)
        k == IF up THEN whole + 1 ELSE whole
    IN  IF neg THEN 0 - k ELSE k

round2(x) == CHOOSE k \in {Round2Mag(xv.neg, MagMul(xv.mag, 100)) : xv \in {x}} : TRUE

\* round(x, 2) as a field holds it: <<k>> for k hundredths, and NaN, which
\* round() returns as it is.
rounded(x) == IF IsNaN(x) THEN NaN ELSE <<round2(x)>>

\* sum(values) of a list of floats: 0 + v1 + v2 + ...
RECURSIVE sum_from(_, _)
sum_from(acc, values) ==
    IF values = <<>> THEN acc
    ELSE sum_from(FAdd(acc, Head(values)), Tail(values))

sum(values) == sum_from(Float(FALSE, ZeroMag), values)

\* ------------------------------------------------------------------------
\* app/indicators.py: the indicator bundle.  A water level a layer stores
\* is a decimal number of two places, given in hundredths (centimetres); the
\* averages are floats; rounded levels are in hundredths of a metre and
\* rounded rates in hundredths of a percent.  An optional number is <<>> for
\* None and <<n>> for the number n; the float that is no number is NaN.
\* ------------------------------------------------------------------------

\* Settings.gw_stress_threshold_m: default 10.0, in hundredths
gw_stress_threshold_m == 1000

\* An attribute value of an indicator layer: a number, None (also for a
\* missing key), text that float() and int() reject, held by its length
\* ('n/a' and the empty text), or the float nan, which response.json()
\* reads from the literal NaN of an answer.
Num(n) == [v |-> n, kind |-> "num"]

NoneV == [v |-> 0, kind |-> "none"]

Text == [v |-> Len(<<"n", "/", "a">>), kind |-> "str"]

EmptyText == [v |-> 0, kind |-> "str"]

NanV == [v |-> 0, kind |-> "nan"]

\* attrs.get(k)
AttrGet(attrs, k) == IF k \in DOMAIN attrs THEN attrs[k] ELSE NoneV

\* Truth value of an attribute value: None, 0 and '' are falsy, nan is not.
TruthyV(x) == x.kind = "nan" \/ (x.kind # "none" /\ x.v # 0)

\* `a or b` on attribute values.
OrV(a, b) == IF TruthyV(a) THEN a ELSE b

\* float(value) under `except (TypeError, ValueError)` for a whole number
\* or nan, which float() returns as it is: <<>> when it raises.
to_float(x) ==
    IF x.kind = "num" THEN <<x.v>>
    ELSE IF x.kind = "nan" THEN NaN
    ELSE <<>>

\* x >= bound for a float to_float returned: false for NaN
float_ge(x, bound) == x # NaN /\ x[1] >= bound

\* float(value) under `except (TypeError, ValueError)` for a water level,
\* a number of hundredths, or nan.
level_float(x) ==
    IF x.kind = "num" THEN <<FromRatio(x.v, 100)>>
    ELSE IF x.kind = "nan" THEN <<NaNFloat>>
    ELSE <<>>

INDICATOR_LAYERS ==
    [x \in {"groundwater_pre_monsoon", "groundwater_during_monsoon",
            "groundwater_post_monsoon", "aquifer", "rural_facilities",
            "mgnrega_workers"} |->
        CASE x = "groundwater_pre_monsoon" ->
                [name |-> x,
                 url |-> "https://livingatlas.esri.in/server1/rest/services/Water/Pre_Post_Monsoon_Water_Level_Depth/FeatureServer/1",
                 name_field |-> "district_name", state_field |-> "state_",
                 district_field |-> "district_name", parent_field |-> "state_",
                 code_field |-> None, value_field |-> "dtwl_"]
          [] x = "groundwater_during_monsoon" ->
                [name |-> x,
                 url |-> "https://livingatlas.esri.in/server1/rest/services/Water/Pre_Post_Monsoon_Water_Level_Depth/FeatureServer/2",
                 name_field |-> "district_name", state_field |-> "State",
                 district_field |-> "district_name", parent_field |-> "state",
                 code_field |-> None, value_field |-> "wl_mbgl"]
          [] x = "groundwater_post_monsoon" ->
                [name |-> x,
                 url |-> "https://livingatlas.esri.in/server1/rest/services/Water/Pre_Post_Monsoon_Water_Level_Depth/FeatureServer/3",
                 name_field |-> "district_name", state_field |-> "State",
                 district_field |-> "district_name", parent_field |-> "state",
                 code_field |-> None, value_field |-> "wl_mbgl"]
          [] x = "aquifer" ->
                [name |-> x,
                 url |-> "https://livingatlas.esri.in/server1/rest/services/Water/Major_Aquifers/MapServer/0",
                 name_field |-> "state_name", state_field |-> "state_name",
                 district_field |-> None, parent_field |-> None,
                 code_field |-> "new_code_14", value_field |-> "aquifer"]
          [] x = "rural_facilities" ->
                [name |-> x,
                 url |-> "https://livingatlas.esri.in/server1/rest/services/PMGSY/IN_PMGSY_RuralFacilities_2021/MapServer/0",
                 name_field |-> "facilityname", state_field |-> "State",
                 district_field |-> "District", parent_field |-> None,
                 code_field |-> None, value_field |-> None]
          [] x = "mgnrega_workers" ->
                [name |-> x,
                 url |-> "https://livingatlas.esri.in/server1/rest/services/MGNREGA/IN_DT_CategoryWiseHHWorkers/MapServer/0",
                 name_field |-> "district_name", state_field |-> "state_name",
                 district_field |-> "district_name", parent_field |-> None,
                 code_field |-> None, value_field |-> None]]

\* A query a fetch sends, with what the client did: `form` tells how the
\* (field, value) pairs of `where` are written, "upper" for
\* UPPER(f) = UPPER('v'), "plain" for f = 'v', "point" for a query by point.
SentQuery(url, form, where, outcome) ==
    [url |-> url, raises |-> outcome.raises, results |-> outcome.results,
     where |-> where, form |-> form]

\* The query failed: client.query raised.
Failed(outcome) == outcome.raises # None

\* The fetches: `except Exception` around the client's query
FetchCatches_ServiceOnly(e) == e = "ArcGISError"

FetchCatches(e) == e \in QueryErrors

\* The exception of the query leaves the fetch, and build_indicator_bundle.
Escapes(outcome) == Failed(outcome) /\ ~FetchCatches(outcome.raises)

\* The queries of a fetch that are sent: those up to the first whose
\* exception escapes.
RECURSIVE SentUntilEscape(_)
SentUntilEscape(qs) ==
    IF qs = <<>> THEN <<>>
    ELSE IF qs[1].raises # None /\ ~FetchCatches(qs[1].raises) THEN <<qs[1]>>
    ELSE <<qs[1]>> \o SentUntilEscape(Tail(qs))

\* --- _average_groundwater_layer ---

\* The where clauses of a seasonal groundwater query.
average_groundwater_where(layer_key, a) ==
    LET layer == INDICATOR_LAYERS[layer_key]
        by_state ==
            IF Truthy(a.state) /\ (Truthy(layer.state_field) \/ Truthy(layer.parent_field))
            THEN <<[field |-> Or(layer.state_field, layer.parent_field), value |-> a.state]>>
            ELSE <<>>
        by_district ==
            IF Truthy(a.district) /\ (Truthy(layer.district_field) \/ Truthy(layer.name_field))
            THEN <<[field |-> Or(layer.district_field, layer.name_field), value |-> a.district]>>
            ELSE <<>>
    IN  by_state \o by_district

\* The floats read from the value field of the features, in order.
RECURSIVE water_values(_, _)
water_values(results, value_field) ==
    IF results = <<>> THEN <<>>
    ELSE level_float(AttrGet(Head(results).attributes, value_field))
         \o water_values(Tail(results), value_field)

\* _average_groundwater_layer: <<>> for None, else the float
\* sum(values) / len(values).
average_groundwater_layer(layer_key, outcome) ==
    IF layer_key \notin DOMAIN INDICATOR_LAYERS THEN <<>>
    ELSE IF Failed(outcome) THEN <<>>
    ELSE LET layer == INDICATOR_LAYERS[layer_key]
             values == water_values(outcome.results, Or(layer.value_field, "wl_mbgl"))
         IN  IF values = <<>> THEN <<>>
             ELSE <<FDivInt(sum(values), Len(values))>>

\* --- _fetch_district_groundwater ---

district_groundwater_where(a) ==
    LET layer == AOI_LAYERS["district"]
        state_abbrev == get_state_abbreviation(a.state)
        by_state ==
            IF Truthy(a.state) /\ Truthy(layer.state_field) /\ Truthy(state_abbrev)
            THEN <<[field |-> layer.state_field, value |-> state_abbrev]>> ELSE <<>>
        by_district ==
            IF Truthy(a.district) /\ Truthy(layer.name_field)
            THEN <<[field |-> layer.name_field, value |-> a.district]>> ELSE <<>>
    IN  by_state \o by_district

\* The category of a stage of development, in percent: stage_val is the
\* float float(stage) returned, <<n>> or NaN.
stage_category(stage_val) ==
    IF float_ge(stage_val, 100) THEN "Over-exploited"
    ELSE IF float_ge(stage_val, 90) THEN "Critical"
    ELSE IF float_ge(stage_val, 70) THEN "Semi-critical"
    ELSE "Safe"

NoDistrictGroundwater ==
    [annual_extraction |-> <<>>, net_available |-> <<>>,
     stage_of_development |-> <<>>, category |-> None]

\* _fetch_district_groundwater: gw_data, a key that is not set being None.
fetch_district_groundwater(outcome) ==
    IF Failed(outcome) \/ outcome.results = <<>> THEN NoDistrictGroundwater
    ELSE LET attrs == outcome.results[1].attributes
             stage == to_float(AttrGet(attrs, "Stage_of_d"))
         IN  [annual_extraction |->
                  to_float(OrV(AttrGet(attrs, "Annual_Gro"), AttrGet(attrs, "Annual_G00"))),
              net_available |->
                  to_float(OrV(AttrGet(attrs, "Net_Ground"), AttrGet(attrs, "Ground_Wat"))),
              stage_of_development |-> stage,
              category |-> IF stage = <<>> THEN None ELSE stage_category(stage)]

\* --- _fetch_groundwater ---

\* next((value for value in candidates if value is not None), None)
RECURSIVE first_not_none(_)
first_not_none(candidates) ==
    IF candidates = <<>> THEN <<>>
    ELSE IF Head(candidates) # <<>> THEN Head(candidates)
    ELSE first_not_none(Tail(candidates))

\* round(newer - older, 2), both being averages
rounded_difference(newer, older) == rounded(FSub(newer, older))

\* `if primary`: the truth value of an optional float
primary_is_truthy(primary) == primary # <<>> /\ FTruthy(primary[1])

\* primary >= self.settings.gw_stress_threshold_m
is_stressed(primary) == FGe(primary, FromRatio(gw_stress_threshold_m, 100))

GroundWaterDefault ==
    [category |-> None, annual_extraction_mcm |-> <<>>,
     net_available_mcm |-> <<>>, stage_of_development_pc |-> <<>>,
     district_pre2019_m |-> <<>>, pre_post_delta_m |-> <<>>, stressed |-> <<>>]

\* _fetch_groundwater from line 199 on, its four locals being assigned
groundwater_of(district_gw, pre_monsoon, during_monsoon, post_monsoon) ==
    LET primary == first_not_none(<<post_monsoon, during_monsoon, pre_monsoon>>)
        delta ==
            IF post_monsoon # <<>> /\ pre_monsoon # <<>>
            THEN rounded_difference(post_monsoon[1], pre_monsoon[1])
            ELSE IF during_monsoon # <<>> /\ pre_monsoon # <<>>
            THEN rounded_difference(during_monsoon[1], pre_monsoon[1])
            ELSE <<>>
        stressed ==
            IF primary_is_truthy(primary)
            THEN <<is_stressed(primary[1])>>
            ELSE <<>>
    IN  [category |-> district_gw.category,
         annual_extraction_mcm |-> district_gw.annual_extraction,
         net_available_mcm |-> district_gw.net_available,
         stage_of_development_pc |-> district_gw.stage_of_development,
         district_pre2019_m |->
             IF primary_is_truthy(primary)
             THEN rounded(primary[1]) ELSE <<>>,
         pre_post_delta_m |-> delta,
         stressed |-> stressed]

\* _fetch_groundwater for the answers of its four queries
fetch_groundwater(o_district, o_pre, o_during, o_post) ==
    CHOOSE g \in {groundwater_of(district_gw, pre_monsoon, during_monsoon, post_monsoon) :
                    district_gw \in {fetch_district_groundwater(o_district)},
                    pre_monsoon \in {average_groundwater_layer("groundwater_pre_monsoon", o_pre)},
                    during_monsoon \in {average_groundwater_layer("groundwater_during_monsoon", o_during)},
                    post_monsoon \in {average_groundwater_layer("groundwater_post_monsoon", o_post)}} : TRUE

\* --- _fetch_aquifer ---

AquiferDefault == [type |-> None, code |-> None]

\* `not aoi.centroid_lat`: the truth value of an optional float
CoordinateMissing(c) == c = <<>> \/ c[1] = 0

\* _fetch_aquifer sends its query.
AquiferQueried(a) ==
    /\ "aquifer" \in DOMAIN INDICATOR_LAYERS
    /\ ~CoordinateMissing(a.centroid_lat)
    /\ ~CoordinateMissing(a.centroid_lon)

fetch_aquifer(a, outcome) ==
    IF ~AquiferQueried(a) THEN AquiferDefault
    ELSE IF Failed(outcome) \/ outcome.results = <<>> THEN AquiferDefault
    ELSE LET attrs == outcome.results[1].attributes
         IN  [type |-> Or(Get(attrs, "aquifer", None),
                          Or(Get(attrs, "aquifers", None),
                             Or(Get(attrs, "aquifer_0", None),
                                Get(attrs, "systems", None)))),
              code |-> Or(Get(attrs, "new_code_14", None), Get(attrs, "newcode43", None))]

\* --- _fetch_lulc, _fetch_state_forest_data ---

state_forest_where(a) ==
    LET layer == AOI_LAYERS["state"]
    IN  IF Truthy(a.state) /\ Truthy(layer.name_field)
        THEN <<[field |-> layer.name_field, value |-> a.state]>> ELSE <<>>

LULCDefault ==
    [classes |-> EmptyDict, forest_area_sqkm |-> <<>>, forest_percentage |-> <<>>,
     scrub_area_sqkm |-> <<>>, geographic_area_sqkm |-> <<>>]

fetch_lulc(outcome) ==
    IF Failed(outcome) \/ outcome.results = <<>> THEN LULCDefault
    ELSE LET attrs == outcome.results[1].attributes
         IN  [classes |-> EmptyDict,
              forest_area_sqkm |-> to_float(AttrGet(attrs, "Forest_201")),
              forest_percentage |-> to_float(AttrGet(attrs, "Per_GA_201")),
              scrub_area_sqkm |-> to_float(AttrGet(attrs, "Scrub2019")),
              geographic_area_sqkm |-> to_float(AttrGet(attrs, "GA_sqkm"))]

\* --- _fetch_mgnrega ---

mgnrega_where(a) ==
    LET layer == INDICATOR_LAYERS["mgnrega_workers"]
        by_state ==
            IF Truthy(a.state) /\ Truthy(layer.state_field)
            THEN <<[field |-> layer.state_field, value |-> a.state]>> ELSE <<>>
        by_district ==
            IF Truthy(a.district) /\ Truthy(layer.district_field)
            THEN <<[field |-> layer.district_field, value |-> a.district]>> ELSE <<>>
    IN  by_state \o by_district

\* A count as MGNREGAStats holds it once its Optional[int] field has
\* accepted the attribute value; a text and nan are not accepted
\* (count_rejected).
count_of(x) == IF x.kind = "num" THEN <<x.v>> ELSE <<>>

count_rejected(x) == x.kind \in {"str", "nan"}

\* `if d and d > 0 and n is not None: round((n / d) * 100, 2)` on the
\* attribute values n and d, in hundredths of a percent; nan > 0 is false
\* and nan / d is nan
rate_pc_Unguarded(n, d) ==
    IF d.kind = "num" /\ n.kind = "num"
    THEN <<round2(FMulInt(FromRatio(n.v, IF d.v = 0 THEN 1 ELSE d.v), 100))>> ELSE <<>>

rate_pc(n, d) ==
    IF TruthyV(d) /\ d.kind = "num" /\ d.v > 0 /\ n.kind = "nan"
    THEN NaN
    ELSE IF TruthyV(d) /\ d.kind = "num" /\ d.v > 0 /\ n.kind = "num"
    THEN <<round2(FMulInt(FromRatio(n.v, d.v), 100))>> ELSE <<>>

\* The exception that statement raises, None when it raises none: a text
\* that is not empty cannot be compared with 0, and no text can be divided.
rate_raises(n, d) ==
    IF ~TruthyV(d) THEN None
    ELSE IF d.kind = "str" THEN "TypeError"
    ELSE IF d.v > 0 /\ n.kind = "str" THEN "TypeError"
    ELSE None

MGNREGADefault ==
    [jobcards_applied |-> <<>>, jobcards_issued |-> <<>>,
     registered_workers_total |-> <<>>, registered_workers_sc |-> <<>>,
     registered_workers_st |-> <<>>, registered_workers_women |-> <<>>,
     active_job_cards |-> <<>>, active_workers_total |-> <<>>,
     active_workers_sc |-> <<>>, active_workers_st |-> <<>>,
     active_workers_women |-> <<>>,
     jobcard_issuance_rate_pc |-> <<>>, worker_activation_rate_pc |-> <<>>,
     women_participation_pc |-> <<>>]

\* The attributes MGNREGAStats is built from, in the order of its fields.
CountFields ==
    <<"number_of_jobcards_applied_for", "number_of_jobcards_issued",
      "registered_workers_total", "registered_workers_sc", "registered_workers_st",
      "registered_workers_women", "number_of_active_job_cards",
      "active_workers_total_workers", "active_workers_sc", "active_workers_st",
      "active_workers_women">>

\* The exception that leaves _fetch_mgnrega for an answer of its query,
\* None when it returns: the three rates are computed first, then
\* MGNREGAStats(...) validates the counts.
fetch_mgnrega_raises(outcome) ==
    IF Failed(outcome) \/ outcome.results = <<>> THEN None
    ELSE LET attrs == outcome.results[1].attributes
             jobcards_applied == AttrGet(attrs, "number_of_jobcards_applied_for")
             jobcards_issued == AttrGet(attrs, "number_of_jobcards_issued")
             registered_total == AttrGet(attrs, "registered_workers_total")
             active_total == AttrGet(attrs, "active_workers_total_workers")
             active_women == AttrGet(attrs, "active_workers_women")
         IN  IF rate_raises(jobcards_issued, jobcards_applied) # None
             THEN rate_raises(jobcards_issued, jobcards_applied)
             ELSE IF rate_raises(active_total, registered_total) # None
             THEN rate_raises(active_total, registered_total)
             ELSE IF rate_raises(active_women, active_total) # None
             THEN rate_raises(active_women, active_total)
             ELSE IF \E i \in DOMAIN CountFields : count_rejected(AttrGet(attrs, CountFields[i]))
             THEN "ValidationError"
             ELSE None

\* _fetch_mgnrega: the MGNREGAStats it returns when it does not raise.
fetch_mgnrega(outcome) ==
    IF Failed(outcome) \/ outcome.results = <<>> THEN MGNREGADefault
    ELSE LET attrs == outcome.results[1].attributes
             jobcards_applied == AttrGet(attrs, "number_of_jobcards_applied_for")
             jobcards_issued == AttrGet(attrs, "number_of_jobcards_issued")
             registered_total == AttrGet(attrs, "registered_workers_total")
             active_total == AttrGet(attrs, "active_workers_total_workers")
             active_women == AttrGet(attrs, "active_workers_women")
         IN  [jobcards_applied |-> count_of(jobcards_applied),
              jobcards_issued |-> count_of(jobcards_issued),
              registered_workers_total |-> count_of(registered_total),
              registered_workers_sc |-> count_of(AttrGet(attrs, "registered_workers_sc")),
              registered_workers_st |-> count_of(AttrGet(attrs, "registered_workers_st")),
              registered_workers_women |-> count_of(AttrGet(attrs, "registered_workers_women")),
              active_job_cards |-> count_of(AttrGet(attrs, "number_of_active_job_cards")),
              active_workers_total |-> count_of(active_total),
              active_workers_sc |-> count_of(AttrGet(attrs, "active_workers_sc")),
              active_workers_st |-> count_of(AttrGet(attrs, "active_workers_st")),
              active_workers_women |-> count_of(active_women),
              jobcard_issuance_rate_pc |-> rate_pc(jobcards_issued, jobcards_applied),
              worker_activation_rate_pc |-> rate_pc(active_total, registered_total),
              women_participation_pc |-> rate_pc(active_women, active_total)]

\* --- _build_stub_bundle ---

StubBundle ==
    [gw |-> [category |-> None, annual_extraction_mcm |-> <<>>,
             net_available_mcm |-> <<>>, stage_of_development_pc |-> <<>>,
             district_pre2019_m |-> <<1270>>, pre_post_delta_m |-> <<160>>,
             stressed |-> <<TRUE>>],
     aquifer |-> [type |-> "Hard rock", code |-> "HRK"],
     mgnrega |-> MGNREGADefault,
     lulc_pc |-> [classes |-> [x \in {"forest", "cropland", "built", "water"} |->
                                  CASE x = "forest" -> 58 [] x = "cropland" -> 28
                                    [] x = "built" -> 6 [] x = "water" -> 2],
                  forest_area_sqkm |-> <<>>, forest_percentage |-> <<>>,
                  scrub_area_sqkm |-> <<>>, geographic_area_sqkm |-> <<>>]]

\* --- the AOIs handed to build_indicator_bundle, and what the layers answer ---

StateContext == update_context("state", StateFull, "Tripura", EmptyDict)

\* resolve_aoi("Tripura"): resolved at the state level
AOIStateLevel ==
    BuildAOI("Tripura", None, None, None, StateContext, StateFull, "state")

\* resolve_aoi("Tripura", "Dhalai"): resolved at the district level
AOIDistrictLevel ==
    BuildAOI("Tripura", "Dhalai", None, None,
             update_context("district", DistrictFull, "Dhalai", StateContext),
             DistrictFull, "district")

\* resolve_aoi("Tripura", "Dhalai") on a state feature without geometry,
\* the district not found
AOINoCentroid ==
    BuildAOI("Tripura", "Dhalai", None, None,
             update_context("state", StateBare, "Tripura", EmptyDict), StateBare, "state")

\* An AOI whose centroid lies on the equator: centroid_lat = 0.0
AOIZeroLatitude == [AOIDistrictLevel EXCEPT !.centroid_lat = <<0>>]

BundleAOIs == {AOIStateLevel, AOIDistrictLevel, AOINoCentroid, AOIZeroLatitude}

Raises(e) == [raises |-> e, results |-> <<>>]

Returns(results) == [raises |-> None, results |-> results]

DistrictGroundwaterFull ==
    [attributes |-> [x \in {"Annual_Gro", "Net_Ground", "Stage_of_d"} |->
                        CASE x = "Annual_Gro" -> Num(50)
                          [] x = "Net_Ground" -> Num(80)
                          [] x = "Stage_of_d" -> Num(95)]]

DistrictGroundwaterPartial ==
    [attributes |-> [x \in {"Annual_Gro", "Annual_G00", "Net_Ground", "Ground_Wat",
                            "Stage_of_d"} |->
                        CASE x = "Annual_Gro" -> Num(0)
                          [] x = "Annual_G00" -> Num(40)
                          [] x = "Net_Ground" -> EmptyText
                          [] x = "Ground_Wat" -> Num(60)
                          [] x = "Stage_of_d" -> Text]]

DistrictGroundwaterOutcomes ==
    {Raises("Timeout"), Returns(<<>>), Returns(<<DistrictGroundwaterFull>>),
     Returns(<<DistrictGroundwaterPartial, DistrictGroundwaterFull>>)}

\* A measurement of a seasonal layer, with its water level.
WaterFeature(layer_key, value) ==
    [attributes |-> Attrs1(Or(INDICATOR_LAYERS[layer_key].value_field, "wl_mbgl"), value)]

SeasonLayers ==
    {"groundwater_pre_monsoon", "groundwater_during_monsoon", "groundwater_post_monsoon"}

\* What a seasonal layer answers.  Two answers of the post-monsoon layer
\* have an average that is no float: 0.005, and 10.00 as the mean of 2.38,
\* 9.79 and 17.83; the levels 0.1, 0.2 and -0.3 of the monsoon layer have a
\* sum of 2^-54; one answer of the pre-monsoon layer holds a level that is
\* nan, and so has the average nan.
SeasonOutcomes(layer_key) ==
    {Raises("HTTPError")}
    \cup (IF layer_key = "groundwater_pre_monsoon"
          THEN {Returns(<<WaterFeature(layer_key, Num(800)), WaterFeature(layer_key, NanV)>>)}
          ELSE {Returns(<<WaterFeature(layer_key, Num(0))>>)})
    \cup (IF layer_key = "groundwater_during_monsoon"
          THEN {Returns(<<WaterFeature(layer_key, Num(10)), WaterFeature(layer_key, Num(20)),
                          WaterFeature(layer_key, Num(0 - 30))>>)}
          ELSE {Returns(<<>>)})
    \cup (IF layer_key # "groundwater_post_monsoon" THEN {}
          ELSE {Returns(<<WaterFeature(layer_key, Num(1200))>>)})
    \cup (IF layer_key # "groundwater_pre_monsoon" THEN {}
          ELSE {Returns(<<WaterFeature(layer_key, Num(800)), WaterFeature(layer_key, Text),
                          WaterFeature(layer_key, NoneV), WaterFeature(layer_key, Num(900))>>)})
    \cup (IF layer_key # "groundwater_post_monsoon" THEN {}
          ELSE {Returns(<<WaterFeature(layer_key, Num(0)), WaterFeature(layer_key, EmptyText),
                          WaterFeature(layer_key, Num(1))>>),
                Returns(<<WaterFeature(layer_key, Num(238)), WaterFeature(layer_key, Num(979)),
                          WaterFeature(layer_key, Num(1783))>>)})

AquiferFull ==
    [attributes |-> [x \in {"aquifer", "new_code_14"} |->
                        CASE x = "aquifer" -> "Alluvium" [] x = "new_code_14" -> "AL01"]]

AquiferLegacy ==
    [attributes |-> [x \in {"aquifer", "aquifer_0", "newcode43"} |->
                        CASE x = "aquifer" -> "" [] x = "aquifer_0" -> "Younger Alluvium"
                          [] x = "newcode43" -> "AL43"]]

AquiferOutcomes ==
    {Raises("ArcGISError"), Returns(<<>>), Returns(<<AquiferFull>>),
     Returns(<<AquiferLegacy, AquiferFull>>)}

ForestFull ==
    [attributes |-> [x \in {"GA_sqkm", "Forest_201", "Per_GA_201", "Scrub2019"} |->
                        CASE x = "GA_sqkm" -> Num(10486) [] x = "Forest_201" -> Num(7726)
                          [] x = "Per_GA_201" -> Num(74) [] x = "Scrub2019" -> Num(33)]]

ForestOutcomes == {Raises("Timeout"), Returns(<<>>), Returns(<<ForestFull>>)}

\* A row of the worker layer with the five counts the rates are made of.
WorkerFeature(applied, issued, registered, active, women) ==
    [attributes |-> [x \in {"number_of_jobcards_applied_for", "number_of_jobcards_issued",
                            "registered_workers_total", "active_workers_total_workers",
                            "active_workers_women"} |->
                        CASE x = "number_of_jobcards_applied_for" -> applied
                          [] x = "number_of_jobcards_issued" -> issued
                          [] x = "registered_workers_total" -> registered
                          [] x = "active_workers_total_workers" -> active
                          [] x = "active_workers_women" -> women]]

WorkerOutcomes ==
    {Raises("HTTPError"), Returns(<<>>),
     Returns(<<WorkerFeature(Num(100), Num(80), Num(200), Num(50), Num(20))>>),
     Returns(<<WorkerFeature(Num(0), Num(80), Num(0), Num(0), Num(0))>>),
     Returns(<<WorkerFeature(NoneV, Num(80), Num(200), NoneV, Num(20))>>),
     Returns(<<WorkerFeature(Num(100), NoneV, NoneV, Num(50), NoneV)>>),
     Returns(<<WorkerFeature(Num(160), Num(23), Num(3), Num(2), Num(1))>>),
     Returns(<<WorkerFeature(Text, Num(80), Num(200), Num(50), Num(20))>>),
     Returns(<<WorkerFeature(EmptyText, Num(80), Num(200), Num(50), Num(20))>>)}

\* --- build_indicator_bundle ---

\* build_indicator_bundle(aoi) up to its first query; in stub mode, all of it.
BuildIndicatorBundle(a) ==
    /\ bpc \in {"idle", "returned", "raised"}
    /\ bundle_aoi' = <<a>>
    /\ bundle_queries' = <<>>
    /\ gw_locals' = <<>>
    /\ gw' = <<>>
    /\ aquifer' = <<>>
    /\ lulc' = <<>>
    /\ mgnrega' = <<>>
    /\ IF stub_mode
       THEN /\ bpc' = "returned"
            /\ bundle' = <<StubBundle>>
       ELSE /\ bpc' = "gw"
            /\ bundle' = <<>>
    /\ UNCHANGED nonbvars

\* _fetch_groundwater: district_gw = self._fetch_district_groundwater(aoi)
GroundwaterDistrict(outcome) ==
    /\ bpc = "gw"
    /\ IF Escapes(outcome)
       THEN gw_locals' = gw_locals /\ bpc' = "raised"
       ELSE gw_locals' = <<fetch_district_groundwater(outcome)>> /\ bpc' = "gw_pre"
    /\ bundle_queries' =
          Append(bundle_queries,
                 SentQuery(AOI_LAYERS["district"].url, "plain",
                           district_groundwater_where(bundle_aoi[1]), outcome))
    /\ UNCHANGED <<bundle_aoi, gw, aquifer, lulc, mgnrega, bundle>>
    /\ UNCHANGED nonbvars

\* The seasonal layer _fetch_groundwater asks at a position, and the
\* position after it.
SeasonAt(pc) ==
    CASE pc = "gw_pre" -> "groundwater_pre_monsoon"
      [] pc = "gw_during" -> "groundwater_during_monsoon"
      [] pc = "gw_post" -> "groundwater_post_monsoon"

AfterSeason(pc) ==
    CASE pc = "gw_pre" -> "gw_during"
      [] pc = "gw_during" -> "gw_post"
      [] pc = "gw_post" -> "aquifer"

\* _fetch_groundwater: one call of self._average_groundwater_layer; after
\* the post-monsoon one the rest of _fetch_groundwater, which assigns gw.
GroundwaterSeason(layer_key, outcome) ==
    /\ bpc \in {"gw_pre", "gw_during", "gw_post"}
    /\ layer_key = SeasonAt(bpc)
    /\ bundle_queries' =
          Append(bundle_queries,
                 SentQuery(INDICATOR_LAYERS[SeasonAt(bpc)].url, "upper",
                           average_groundwater_where(SeasonAt(bpc), bundle_aoi[1]), outcome))
    /\ IF Escapes(outcome)
       THEN /\ bpc' = "raised"
            /\ UNCHANGED <<gw_locals, gw>>
       ELSE /\ bpc' = AfterSeason(bpc)
            /\ \E average \in {average_groundwater_layer(SeasonAt(bpc), outcome)} :
                  IF bpc = "gw_post"
                  THEN /\ gw' = <<groundwater_of(gw_locals[1], gw_locals[2],
                                                 gw_locals[3], average)>>
                       /\ gw_locals' = gw_locals
                  ELSE /\ gw_locals' = Append(gw_locals, average)
                       /\ gw' = gw
    /\ UNCHANGED <<bundle_aoi, aquifer, lulc, mgnrega, bundle>>
    /\ UNCHANGED nonbvars

\* aquifer = self._fetch_aquifer(aoi); outcome is what the client does for
\* the query by point, which is sent for an AOI with a centroid only.
FetchAquifer(outcome) ==
    /\ bpc = "aquifer"
    /\ IF AquiferQueried(bundle_aoi[1]) /\ Escapes(outcome)
       THEN aquifer' = <<>> /\ bpc' = "raised"
       ELSE aquifer' = <<fetch_aquifer(bundle_aoi[1], outcome)>> /\ bpc' = "lulc"
    /\ bundle_queries' =
          IF AquiferQueried(bundle_aoi[1])
          THEN Append(bundle_queries,
                      SentQuery(INDICATOR_LAYERS["aquifer"].url, "point", <<>>, outcome))
          ELSE bundle_queries
    /\ UNCHANGED <<bundle_aoi, gw_locals, gw, lulc, mgnrega, bundle>>
    /\ UNCHANGED nonbvars

\* lulc = self._fetch_lulc(aoi)
FetchLulc(outcome) ==
    /\ bpc = "lulc"
    /\ IF Escapes(outcome)
       THEN lulc' = <<>> /\ bpc' = "raised"
       ELSE lulc' = <<fetch_lulc(outcome)>> /\ bpc' = "mgnrega"
    /\ bundle_queries' =
          Append(bundle_queries,
                 SentQuery(AOI_LAYERS["state"].url, "plain",
                           state_forest_where(bundle_aoi[1]), outcome))
    /\ UNCHANGED <<bundle_aoi, gw_locals, gw, aquifer, mgnrega, bundle>>
    /\ UNCHANGED nonbvars

\* mgnrega = self._fetch_mgnrega(aoi), and the IndicatorSet returned
FetchMgnrega(outcome) ==
    /\ bpc = "mgnrega"
    /\ IF Escapes(outcome) \/ fetch_mgnrega_raises(outcome) # None
       THEN mgnrega' = <<>> /\ bundle' = bundle /\ bpc' = "raised"
       ELSE /\ mgnrega' = <<fetch_mgnrega(outcome)>>
            /\ bundle' = <<[gw |-> gw[1], aquifer |-> aquifer[1],
                            mgnrega |-> fetch_mgnrega(outcome), lulc_pc |-> lulc[1]]>>
            /\ bpc' = "returned"
    /\ bundle_queries' =
          Append(bundle_queries,
                 SentQuery(INDICATOR_LAYERS["mgnrega_workers"].url, "plain",
                           mgnrega_where(bundle_aoi[1]), outcome))
    /\ UNCHANGED <<bundle_aoi, gw_locals, gw, aquifer, lulc>>
    /\ UNCHANGED nonbvars

\* --- _fetch_district_groundwater on its own ---

\* The stage of development a district row carries: a whole percentage up
\* to MaxStage, None, text that float() rejects, or nan.
StageValues == {Num(n) : n \in 0..MaxStage} \cup {NoneV, Text, EmptyText, NanV}

\* A row of the district layer with its stage of development.
StageFeature(stage) ==
    [attributes |-> [x \in {"Annual_Gro", "Net_Ground", "Stage_of_d"} |->
                        CASE x = "Annual_Gro" -> Num(50)
                          [] x = "Net_Ground" -> Num(80)
                          [] x = "Stage_of_d" -> stage]]

StageOutcomes ==
    {Raises("Timeout"), Returns(<<>>)}
    \cup {Returns(<<StageFeature(v)>>) : v \in StageValues}

\* self._fetch_district_groundwater(aoi)
FetchDistrictGroundwater ==
    /\ sg_data = <<>>
    /\ sg_data' = <<fetch_district_groundwater(sg_outcome)>>
    /\ UNCHANGED sg_outcome
    /\ UNCHANGED <<cvars, rvars, evars, svars, tvars, gvars, bvars, yvars>>

StageIdle ==
    /\ sg_outcome = NoQuery
    /\ sg_data = <<>>

BundleIdle ==
    /\ bpc = "idle"
    /\ bundle_aoi = <<>>
    /\ gw_locals = <<>>
    /\ gw = <<>>
    /\ aquifer = <<>>
    /\ lulc = <<>>
    /\ mgnrega = <<>>
    /\ bundle_queries = <<>>
    /\ bundle = <<>>

\* ------------------------------------------------------------------------
\* app/indicators.py: whole calls of resolve_aoi and build_report, made by
\* several callers on one IndicatorService
\* ------------------------------------------------------------------------

Cycles == {1, 2}

\* The exception that leaves build_indicator_bundle, None when it returns;
\* o is what the client does for each of its queries.
build_indicator_bundle_raises(stub, o) ==
    IF stub THEN None ELSE fetch_mgnrega_raises(o.mgnrega)

\* The IndicatorSet build_indicator_bundle returns when the layers answer o
build_indicator_bundle(stub, a, o) ==
    IF stub THEN StubBundle
    ELSE [gw |-> fetch_groundwater(o.district, o.pre, o.during, o.post),
          aquifer |-> fetch_aquifer(a, o.aquifer),
          mgnrega |-> fetch_mgnrega(o.mgnrega),
          lulc_pc |-> fetch_lulc(o.forest)]

\* _build_meta_notes: `"village boundary" in note.lower()`
MentionsVillageBoundary(note) ==
    Contains(lower(Chars(note)), Chars("village boundary"))

\* _build_meta_notes: `"block boundary" in note.lower()`
MentionsBlockBoundary(note) ==
    Contains(lower(Chars(note)), Chars("block boundary"))

\* _build_meta_notes, from the value of self._last_resolution_notes it reads
build_meta_notes(resolution_notes, a, indicators) ==
    LET n0 == resolution_notes
        n1 == IF a.village \in {None, "", "N/A"}
                 /\ ~\E i \in DOMAIN n0 : MentionsVillageBoundary(n0[i])
              THEN Append(n0, "Village boundary unavailable; report uses higher-level geometry.")
              ELSE n0
        n2 == IF a.block \in {None, "", "N/A"}
                 /\ ~\E i \in DOMAIN n1 : MentionsBlockBoundary(n1[i])
              THEN Append(n1, "Block boundary unavailable; report uses district context.")
              ELSE n1
        n3 == IF indicators.lulc_pc.classes = EmptyDict
              THEN Append(n2, "LULC data unavailable; values omitted.") ELSE n2
        n4 == IF indicators.gw.stressed = <<>>
              THEN Append(n3, "Groundwater stress could not be evaluated.") ELSE n3
        n5 == IF indicators.gw.pre_post_delta_m = <<>>
              THEN Append(n4, "Groundwater change data unavailable; delta omitted.") ELSE n4
    IN  n5

\* What the layers answer while the callers run: every indicator query
\* fails, or every one finds its rows.
IndicatorWorlds ==
    {[district |-> Raises("Timeout"), aquifer |-> Raises("Timeout"),
      mgnrega |-> Raises("Timeout"), pre |-> Raises("Timeout"),
      during |-> Raises("Timeout"), post |-> Raises("Timeout"),
      forest |-> Raises("Timeout")],
     [district |-> Returns(<<DistrictGroundwaterFull>>),
      aquifer |-> Returns(<<AquiferFull>>),
      mgnrega |-> Returns(<<WorkerFeature(Num(100), Num(80), Num(200), Num(50), Num(20))>>),
      pre |-> Returns(<<WaterFeature("groundwater_pre_monsoon", Num(800))>>),
      during |-> Returns(<<>>),
      post |-> Returns(<<WaterFeature("groundwater_post_monsoon", Num(1200))>>),
      forest |-> Returns(<<ForestFull>>)]}

\* The locals of a resolve_aoi call that has not started.
NoFrame ==
    [state |-> None, district |-> None, block |-> None, village |-> None,
     context |-> EmptyDict, state_feature |-> <<>>, district_feature |-> <<>>,
     block_feature |-> <<>>, village_feature |-> <<>>,
     answers |-> <<>>, answered |-> 0]

\* The notes a step appended: those of `after` beyond the ones of `before`.
Appended(before, after) == SubSeq(after, Len(before) + 1, Len(after))

\* A caller calls resolve_aoi: the call up to its state query, which is the
\* state check, the stub branch and `self._last_resolution_notes = []`.
CycleResolve(c, s, d, b, v) ==
    /\ cy_pc[c] = "start"
    /\ cy_frame' = [cy_frame EXCEPT ![c] =
                       [NoFrame EXCEPT !.state = s, !.district = d,
                                       !.block = b, !.village = v]]
    /\ IF StateMissing(s)
       THEN /\ cy_pc' = [cy_pc EXCEPT ![c] = "failed"]
            /\ UNCHANGED <<cy_aoi, last_resolution_notes>>
       ELSE IF stub_mode
       THEN /\ IF AOIValid(StubAOI(s, d, b, v))
               THEN /\ cy_pc' = [cy_pc EXCEPT ![c] = "resolved"]
                    /\ cy_aoi' = [cy_aoi EXCEPT ![c] = <<StubAOI(s, d, b, v)>>]
               ELSE /\ cy_pc' = [cy_pc EXCEPT ![c] = "failed"]
                    /\ cy_aoi' = cy_aoi
            /\ UNCHANGED last_resolution_notes
       ELSE /\ cy_pc' = [cy_pc EXCEPT ![c] = "state"]
            /\ cy_aoi' = cy_aoi
            /\ last_resolution_notes' = <<>>
    /\ UNCHANGED <<cy_notes, cy_report>>
    /\ UNCHANGED <<stub_mode, rpc, state, district, block, village, context,
                   state_feature, district_feature, block_feature, village_feature,
                   queries, aoi, error>>
    /\ UNCHANGED <<cvars, evars, svars, tvars, gvars, bvars, dvars>>

\* The state query of a caller's resolve_aoi returns or raises; the call
\* goes on to the district block or raises.
CycleState(c, outcome) ==
    /\ cy_pc[c] = "state"
    /\ \E feature \in {resolve_feature_first("state", outcome)} :
          IF Propagates("state", cy_frame[c].state, outcome) \/ feature = <<>>
          THEN /\ cy_pc' = [cy_pc EXCEPT ![c] = "failed"]
               /\ cy_frame' = cy_frame
          ELSE /\ cy_pc' = [cy_pc EXCEPT ![c] = "district"]
               /\ cy_frame' = [cy_frame EXCEPT
                      ![c].state_feature = feature,
                      ![c].context = update_context("state", feature[1],
                                                    cy_frame[c].state,
                                                    cy_frame[c].context)]
    /\ UNCHANGED <<cy_aoi, cy_notes, cy_report>>
    /\ UNCHANGED <<cvars, rvars, evars, svars, tvars, gvars, bvars, dvars>>

\* The district or the block block of a caller's resolve_aoi: the query of
\* the level, if one is sent, returns or raises, and a note about a level
\* that is missing goes to the list self._last_resolution_notes holds now.
CycleLevel(c, layer_key, outcome) ==
    /\ cy_pc[c] = layer_key
    /\ layer_key \in {"district", "block"}
    /\ \E name \in {IF layer_key = "district" THEN cy_frame[c].district
                     ELSE cy_frame[c].block} :
          IF Propagates(layer_key, name, outcome)
          THEN /\ cy_pc' = [cy_pc EXCEPT ![c] = "failed"]
               /\ UNCHANGED <<cy_frame, cy_notes, last_resolution_notes>>
          ELSE \E r \in {LevelBlock(layer_key, name, outcome, cy_frame[c].context,
                                     last_resolution_notes, <<>>)} :
                  /\ cy_pc' = [cy_pc EXCEPT ![c] = NextLevel(layer_key)]
                  /\ cy_frame' =
                        IF layer_key = "district"
                        THEN [cy_frame EXCEPT ![c].district_feature = r.feature,
                                              ![c].context = r.context]
                        ELSE [cy_frame EXCEPT ![c].block_feature = r.feature,
                                              ![c].context = r.context]
                  /\ last_resolution_notes' = r.notes
                  /\ cy_notes' = [cy_notes EXCEPT ![c] =
                         cy_notes[c] \o Appended(last_resolution_notes, r.notes)]
    /\ UNCHANGED <<cy_aoi, cy_report>>
    /\ UNCHANGED <<stub_mode, rpc, state, district, block, village, context,
                   state_feature, district_feature, block_feature, village_feature,
                   queries, aoi, error>>
    /\ UNCHANGED <<cvars, evars, svars, tvars, gvars, bvars, dvars>>

\* The village block of a caller's resolve_aoi: the query of the level, if
\* one is sent, returns or raises, and a note about a village that is
\* missing goes to the list self._last_resolution_notes holds now.
CycleVillage(c, outcome) ==
    /\ cy_pc[c] = "village"
    /\ IF Propagates("village", cy_frame[c].village, outcome)
       THEN /\ cy_pc' = [cy_pc EXCEPT ![c] = "failed"]
            /\ UNCHANGED <<cy_frame, cy_notes, last_resolution_notes>>
       ELSE \E r \in {LevelBlock("village", cy_frame[c].village, outcome,
                                  cy_frame[c].context, last_resolution_notes, <<>>)} :
               /\ cy_pc' = [cy_pc EXCEPT ![c] = "build"]
               /\ cy_frame' = [cy_frame EXCEPT ![c].village_feature = r.feature,
                                               ![c].context = r.context]
               /\ last_resolution_notes' = r.notes
               /\ cy_notes' = [cy_notes EXCEPT ![c] =
                      cy_notes[c] \o Appended(last_resolution_notes, r.notes)]
    /\ UNCHANGED <<cy_aoi, cy_report>>
    /\ UNCHANGED <<stub_mode, rpc, state, district, block, village, context,
                   state_feature, district_feature, block_feature, village_feature,
                   queries, aoi, error>>
    /\ UNCHANGED <<cvars, evars, svars, tvars, gvars, bvars, dvars>>

\* The rest of a caller's resolve_aoi: the best feature, the note about
\* its level, which goes to the list self._last_resolution_notes holds
\* now, and the AOI the caller keeps unless its constructor raises.
CycleBuild(c) ==
    /\ cy_pc[c] = "build"
    /\ \E best_layer_key \in {select_best_feature(cy_frame[c].village_feature,
                                                   cy_frame[c].block_feature,
                                                   cy_frame[c].district_feature,
                                                   cy_frame[c].state_feature)} :
          IF best_layer_key = ""
          THEN /\ cy_pc' = [cy_pc EXCEPT ![c] = "failed"]
               /\ UNCHANGED <<cy_aoi, cy_notes, last_resolution_notes>>
          ELSE \E notes \in {IF BestLevelNoted(best_layer_key)
                             THEN Append(last_resolution_notes,
                                         ResolvedAtNote(best_layer_key))
                             ELSE last_resolution_notes},
                  built \in {BuildAOI(cy_frame[c].state, cy_frame[c].district,
                                      cy_frame[c].block, cy_frame[c].village,
                                      cy_frame[c].context,
                                      CASE best_layer_key = "village" ->
                                               cy_frame[c].village_feature[1]
                                        [] best_layer_key = "block" ->
                                               cy_frame[c].block_feature[1]
                                        [] best_layer_key = "district" ->
                                               cy_frame[c].district_feature[1]
                                        [] best_layer_key = "state" ->
                                               cy_frame[c].state_feature[1],
                                      best_layer_key)} :
                  /\ last_resolution_notes' = notes
                  /\ cy_notes' = [cy_notes EXCEPT ![c] =
                         cy_notes[c] \o Appended(last_resolution_notes, notes)]
                  /\ IF AOIValid(built)
                     THEN /\ cy_pc' = [cy_pc EXCEPT ![c] = "resolved"]
                          /\ cy_aoi' = [cy_aoi EXCEPT ![c] = <<built>>]
                     ELSE /\ cy_pc' = [cy_pc EXCEPT ![c] = "failed"]
                          /\ cy_aoi' = cy_aoi
    /\ UNCHANGED <<cy_frame, cy_report>>
    /\ UNCHANGED <<stub_mode, rpc, state, district, block, village, context,
                   state_feature, district_feature, block_feature, village_feature,
                   queries, aoi, error>>
    /\ UNCHANGED <<cvars, evars, svars, tvars, gvars, bvars, dvars>>

\* The queries build_indicator_bundle waits for, in the order it sends them:
\* those of _fetch_groundwater, _fetch_aquifer, _fetch_lulc, _fetch_mgnrega.
BundleRequests(a) ==
    <<"district", "pre", "during", "post">>
    \o (IF AquiferQueried(a) THEN <<"aquifer">> ELSE <<>>)
    \o <<"forest", "mgnrega">>

\* A caller calls build_report with the AOI it kept.  In stub mode nothing
\* is queried and the call returns, _build_meta_notes reading the list
\* self._last_resolution_notes holds now.  Otherwise the call goes as far as
\* the first query of build_indicator_bundle and waits for its answer; o is
\* what the layers answer to the queries of this call.
CycleReport(c, o) ==
    /\ cy_pc[c] = "resolved"
    /\ IF stub_mode
       THEN /\ \E indicators \in {build_indicator_bundle(stub_mode, cy_aoi[c][1], o)} :
                  cy_report' = [cy_report EXCEPT ![c] =
                      <<[aoi |-> cy_aoi[c][1],
                         notes |-> build_meta_notes(last_resolution_notes, cy_aoi[c][1],
                                                    indicators),
                         indicators |-> indicators]>>]
            /\ cy_pc' = [cy_pc EXCEPT ![c] = "reported"]
            /\ cy_frame' = cy_frame
       ELSE /\ cy_pc' = [cy_pc EXCEPT ![c] = "bundle"]
            /\ cy_frame' = [cy_frame EXCEPT ![c].answers = <<o>>, ![c].answered = 0]
            /\ cy_report' = cy_report
    /\ UNCHANGED <<cy_aoi, cy_notes>>
    /\ UNCHANGED <<cvars, rvars, evars, svars, tvars, gvars, bvars, dvars>>

\* build_report inside build_indicator_bundle: the query the caller waits
\* for is answered.  An exception no fetch catches leaves build_report;
\* otherwise the call goes on to its next query, and after the last one
\* build_indicator_bundle returns and _build_meta_notes reads the list
\* self._last_resolution_notes holds at that moment.
CycleRequest(c) ==
    /\ cy_pc[c] = "bundle"
    /\ \E o \in {cy_frame[c].answers[1]}, reqs \in {BundleRequests(cy_aoi[c][1])},
          k \in {cy_frame[c].answered + 1} :
          IF Escapes(o[reqs[k]])
             \/ (k = Len(reqs) /\ build_indicator_bundle_raises(stub_mode, o) # None)
          THEN /\ cy_pc' = [cy_pc EXCEPT ![c] = "failed"]
               /\ UNCHANGED <<cy_frame, cy_report>>
          ELSE /\ cy_frame' = [cy_frame EXCEPT ![c].answered = k]
               /\ IF k < Len(reqs)
                  THEN UNCHANGED <<cy_pc, cy_report>>
                  ELSE /\ \E indicators \in {build_indicator_bundle(stub_mode,
                                                                     cy_aoi[c][1], o)} :
                             cy_report' = [cy_report EXCEPT ![c] =
                                 <<[aoi |-> cy_aoi[c][1],
                                    notes |-> build_meta_notes(last_resolution_notes,
                                                               cy_aoi[c][1], indicators),
                                    indicators |-> indicators]>>]
                       /\ cy_pc' = [cy_pc EXCEPT ![c] = "reported"]
    /\ UNCHANGED <<cy_aoi, cy_notes>>
    /\ UNCHANGED <<cvars, rvars, evars, svars, tvars, gvars, bvars, dvars>>

CyclesIdle ==
    /\ cy_pc = [c \in Cycles |-> "start"]
    /\ cy_aoi = [c \in Cycles |-> <<>>]
    /\ cy_notes = [c \in Cycles |-> <<>>]
    /\ cy_report = [c \in Cycles |-> <<>>]
    /\ cy_frame = [c \in Cycles |-> NoFrame]

\* ------------------------------------------------------------------------
\* Initial states and specifications
\* ------------------------------------------------------------------------

HelpersIdle ==
    /\ StageIdle
    /\ EscapeIdle
    /\ backoff_factor = DefaultBackoff
    /\ SleepIdle
    /\ TableIdle
    /\ GeoIdle

\* IndicatorService.__init__, before any resolve_aoi call.
ResolveIdle ==
    /\ last_resolution_notes = <<>>
    /\ rpc = "idle"
    /\ state = None
    /\ district = None
    /\ block = None
    /\ village = None
    /\ context = EmptyDict
    /\ state_feature = <<>>
    /\ district_feature = <<>>
    /\ block_feature = <<>>
    /\ village_feature = <<>>
    /\ queries = <<>>
    /\ aoi = <<>>
    /\ error = NoError

ClientIdle ==
    /\ cpc = "idle"
    /\ page_size = 1
    /\ start_offset = 0
    /\ offset = 0
    /\ items = <<>>
    /\ attempt = 0
    /\ statuses = <<>>
    /\ slept = <<>>
    /\ round_trips = 0
    /\ raised = None
    /\ returned = None

ClientInit ==
    /\ HelpersIdle
    /\ BundleIdle
    /\ CyclesIdle
    /\ ResolveIdle
    /\ stub_mode = FALSE
    /\ ClientIdle
    /\ max_retries \in 0..MaxRetryBudget
    /\ total_features \in 0..MaxFeatures

ClientNext ==
    \/ \E off \in 0..MaxStartOffset, size \in 1..MaxPageSize : Query(off, size)
    \/ \E resp \in Responses : PostTimeout(resp)
    \/ \E resp \in Responses : PostRetriable(resp)
    \/ TimeSleep
    \/ \E resp \in Responses : PostHttpFailure(resp)
    \/ \E resp \in Responses : PostServiceError(resp)
    \/ \E resp \in Responses : PostPage(resp)

SpecClient == ClientInit /\ [][ClientNext]_vars

ResolveInit ==
    /\ HelpersIdle
    /\ BundleIdle
    /\ CyclesIdle
    /\ ClientIdle
    /\ max_retries = 0
    /\ total_features = 0
    /\ ResolveIdle
    /\ stub_mode \in BOOLEAN

ResolveNext ==
    \/ \E s \in StateArgs, d \in DistrictArgs, b \in BlockArgs, v \in VillageArgs :
          ResolveAoi(s, d, b, v)
    \/ \E outcome \in QueryOutcomes("state") : ResolveState(outcome)
    \/ \E outcome \in QueryOutcomes("district") : ResolveDistrict(outcome)
    \/ \E outcome \in QueryOutcomes("block") : ResolveBlock(outcome)
    \/ \E outcome \in QueryOutcomes("village") : ResolveVillage(outcome)

SpecResolve == ResolveInit /\ [][ResolveNext]_vars

QuietInit ==
    /\ BundleIdle
    /\ CyclesIdle
    /\ ClientIdle
    /\ max_retries = 0
    /\ total_features = 0
    /\ ResolveIdle
    /\ stub_mode = FALSE

EscapeInit ==
    /\ QuietInit
    /\ StageIdle
    /\ backoff_factor = DefaultBackoff
    /\ SleepIdle
    /\ TableIdle
    /\ GeoIdle
    /\ ec_field \in EqFields
    /\ ec_value \in EqNames
    /\ ec_clause = <<>>

EscapeNext == EqClause

SpecEscape == EscapeInit /\ [][EscapeNext]_vars

SleepInit ==
    /\ QuietInit
    /\ StageIdle
    /\ EscapeIdle
    /\ TableIdle
    /\ GeoIdle
    /\ backoff_factor \in BackoffFactors
    /\ sleep_attempt \in 1..MaxSleepAttempt
    /\ sleep_delay = 0

SleepNext ==
    \E jitter \in uniform_jitter(sleep_base(backoff_factor, sleep_attempt)) : Sleep(jitter)

SpecSleep == SleepInit /\ [][SleepNext]_vars

TableInit ==
    /\ QuietInit
    /\ StageIdle
    /\ EscapeIdle
    /\ backoff_factor = DefaultBackoff
    /\ SleepIdle
    /\ GeoIdle
    /\ st_call \in TableCalls
    /\ st_result = <<>>

TableNext ==
    \/ GetStateAbbreviation
    \/ GetStateFullName

SpecTable == TableInit /\ [][TableNext]_vars

GeoInit ==
    /\ QuietInit
    /\ StageIdle
    /\ EscapeIdle
    /\ backoff_factor = DefaultBackoff
    /\ SleepIdle
    /\ TableIdle
    /\ md_base \in GeoPoints
    /\ md_points \in PointLists
    /\ md_result = <<>>

GeoNext == MinDistanceKm

SpecGeo == GeoInit /\ [][GeoNext]_vars

StageInit ==
    /\ QuietInit
    /\ EscapeIdle
    /\ backoff_factor = DefaultBackoff
    /\ SleepIdle
    /\ TableIdle
    /\ GeoIdle
    /\ sg_outcome \in StageOutcomes
    /\ sg_data = <<>>

StageNext == FetchDistrictGroundwater

SpecStage == StageInit /\ [][StageNext]_vars

BundleInit ==
    /\ ClientIdle
    /\ max_retries = 0
    /\ total_features = 0
    /\ ResolveIdle
    /\ stub_mode \in BOOLEAN
    /\ HelpersIdle
    /\ BundleIdle
    /\ CyclesIdle

BundleNext ==
    \/ \E a \in BundleAOIs : BuildIndicatorBundle(a)
    \/ \E outcome \in DistrictGroundwaterOutcomes : GroundwaterDistrict(outcome)
    \/ \E layer_key \in SeasonLayers :
          \E outcome \in SeasonOutcomes(layer_key) : GroundwaterSeason(layer_key, outcome)
    \/ \E outcome \in AquiferOutcomes : FetchAquifer(outcome)
    \/ \E outcome \in ForestOutcomes : FetchLulc(outcome)
    \/ \E outcome \in WorkerOutcomes : FetchMgnrega(outcome)

SpecBundle == BundleInit /\ [][BundleNext]_vars

CyclesInit ==
    /\ ClientIdle
    /\ max_retries = 0
    /\ total_features = 0
    /\ ResolveIdle
    /\ stub_mode \in BOOLEAN
    /\ HelpersIdle
    /\ BundleIdle
    /\ CyclesIdle

CyclesNext ==
    \/ \E c \in Cycles, s \in {"", "Tripura"}, d \in {None, "Dhalai"},
          v \in {None, "Salema"} :
          CycleResolve(c, s, d, None, v)
    \/ \E c \in Cycles, outcome \in {Raises("Timeout"), Returns(<<StateFull>>)} :
          CycleState(c, outcome)
    \/ \E c \in Cycles,
          outcome \in {Returns(<<>>), Returns(<<DistrictFull>>),
                       Returns(<<DistrictTextArea>>)} :
          CycleLevel(c, "district", outcome)
    \/ \E c \in Cycles : CycleLevel(c, "block", NoQuery)
    \/ \E c \in Cycles, outcome \in {Raises("HTTPError"), Returns(<<VillageFull>>)} :
          CycleVillage(c, outcome)
    \/ \E c \in Cycles : CycleBuild(c)
    \/ \E c \in Cycles, o \in IndicatorWorlds : CycleReport(c, o)
    \/ \E c \in Cycles : CycleRequest(c)

SpecCycles == CyclesInit /\ [][CyclesNext]_vars

\* One service on which resolve_aoi and build_indicator_bundle are called
\* in any order, build_indicator_bundle with the AOI resolve_aoi returned
\* last or with an AOI made by the caller.
ServiceInit ==
    /\ ClientIdle
    /\ max_retries = 0
    /\ total_features = 0
    /\ ResolveIdle
    /\ stub_mode \in BOOLEAN
    /\ HelpersIdle
    /\ BundleIdle
    /\ CyclesIdle

ServiceNext ==
    \/ \E s \in {"", "Tripura"}, d \in DistrictArgs, v \in {None, "Salema"} :
          ResolveAoi(s, d, None, v)
    \/ \E outcome \in {Raises("Timeout"), Returns(<<StateFull>>)} : ResolveState(outcome)
    \/ \E outcome \in {Returns(<<>>), Returns(<<DistrictFull>>)} :
          ResolveDistrict(outcome)
    \/ ResolveBlock(NoQuery)
    \/ \E outcome \in {Raises("HTTPError"), Returns(<<VillageFull>>)} :
          ResolveVillage(outcome)
    \/ \E a \in {AOINoCentroid} \cup (IF rpc = "returned" THEN {aoi[1]} ELSE {}) :
          BuildIndicatorBundle(a)
    \/ \E o \in IndicatorWorlds : GroundwaterDistrict(o.district)
    \/ \E o \in IndicatorWorlds : GroundwaterSeason("groundwater_pre_monsoon", o.pre)
    \/ \E o \in IndicatorWorlds : GroundwaterSeason("groundwater_during_monsoon", o.during)
    \/ \E o \in IndicatorWorlds : GroundwaterSeason("groundwater_post_monsoon", o.post)
    \/ \E o \in IndicatorWorlds : FetchAquifer(o.aquifer)
    \/ \E o \in IndicatorWorlds : FetchLulc(o.forest)
    \/ \E o \in IndicatorWorlds : FetchMgnrega(o.mgnrega)

SpecService == ServiceInit /\ [][ServiceNext]_vars

\* ------------------------------------------------------------------------
\* Properties of the query client (SpecClient)
\* ------------------------------------------------------------------------

Ceil(a, b) == (a + b - 1) \div b

Max(a, b) == IF a > b THEN a ELSE b

RetriedOnly == \A i \in DOMAIN statuses : statuses[i].status \in RETRIABLE

\* C1: against a service that answers each offset with the slice starting
\* there and flags truncation exactly when features remain, a query that
\* returns has collected every feature from its start offset on, each once
\* and in the service's order; from offset 0 that is all N features, for
\* every N >= 0.
C1_QueryReturnsAllFeatures ==
    cpc = "returned" =>
        /\ returned = SubSeq(ServiceFeatures(total_features),
                             start_offset + 1, total_features)
        /\ (start_offset = 0 => returned = ServiceFeatures(total_features))

C1_Witness ==
    /\ cpc = "returned"
    /\ start_offset = 0
    /\ total_features = 3
    /\ page_size = 2
    /\ round_trips = 2
    /\ returned = <<1, 2, 3>>

\* C2 as written: query never makes more than ceil(total_features /
\* page_size) successful page requests, a total of zero included.
C2_Original_CeilRoundTrips ==
    round_trips <= Ceil(total_features, page_size)

\* C2 amended: query makes at most max(1, ceil(total_features / page_size))
\* successful page requests; the one request of an empty service is needed
\* to learn that it is empty.
C2_RoundTripsBounded ==
    round_trips <= Max(1, Ceil(total_features, page_size))

C2_Witness ==
    /\ cpc = "returned"
    /\ total_features = 0
    /\ round_trips = 1
    /\ returned = <<>>

\* C3: while every response of one page request carries a retriable status,
\* _request has made at most max_retries + 1 attempts and slept at most
\* max_retries times, and the attempt numbered max_retries + 1 has raised
\* the HTTP error.
C3_RetryBudget ==
    (statuses # <<>> /\ RetriedOnly) =>
        /\ attempt = Len(statuses)
        /\ attempt <= max_retries + 1
        /\ Len(slept) <= max_retries
        /\ (attempt = max_retries + 1 <=> cpc = "raised")
        /\ (cpc = "raised" => raised = "HTTPError" /\ returned = None)

C3_Witness ==
    /\ cpc = "raised"
    /\ raised = "HTTPError"
    /\ max_retries = 2
    /\ Len(statuses) = 3
    /\ RetriedOnly
    /\ slept = <<1, 2>>

\* C4: an attempt answered with a successful status and an error object is
\* the last attempt of its request: ArcGISError has left query, which
\* returned nothing, and no sleep follows that attempt.
C4_ServiceErrorNotRetried ==
    \A i \in DOMAIN statuses :
        (statuses[i].status = 200 /\ statuses[i].body = "error") =>
            /\ i = Len(statuses)
            /\ attempt = i
            /\ cpc = "raised"
            /\ raised = "ArcGISError"
            /\ returned = None
            /\ \A j \in DOMAIN slept : slept[j] < i

C4_Witness ==
    /\ cpc = "raised"
    /\ raised = "ArcGISError"
    /\ Len(statuses) = 2
    /\ statuses[1].status = 503
    /\ statuses[2] = [status |-> 200, body |-> "error"]
    /\ slept = <<1>>
    /\ round_trips = 1

\* C5: a timed-out attempt is handled as a 429 answer is: while the attempt
\* number is within the retry budget the client sleeps for that attempt and
\* stays in the request instead of raising.
C5_TimeoutRetriedLike429 ==
    \A i \in DOMAIN statuses :
        (statuses[i].body = "timeout" /\ ~BudgetExceeded(i, max_retries)) =>
            /\ \E j \in DOMAIN slept : slept[j] = i
            /\ ~(cpc = "raised" /\ Len(statuses) = i)

\* C6: an attempt answered with a failure status outside the retriable set
\* is the last attempt of its request: the HTTP error has left query and no
\* sleep was made for that attempt, whatever its number.
C6_NonRetriableFailsAtOnce ==
    \A i \in DOMAIN statuses :
        (raise_for_status(statuses[i].status) /\ statuses[i].status \notin RETRIABLE) =>
            /\ i = Len(statuses)
            /\ attempt = i
            /\ cpc = "raised"
            /\ raised = "HTTPError"
            /\ returned = None
            /\ \A j \in DOMAIN slept : slept[j] < i

C6_Witness ==
    /\ cpc = "raised"
    /\ raised = "HTTPError"
    /\ max_retries = 2
    /\ Len(statuses) = 2
    /\ statuses[1].status = 429
    /\ statuses[2].status = 404
    /\ slept = <<1>>

\* ------------------------------------------------------------------------
\* Properties of resolve_aoi (SpecResolve)
\* ------------------------------------------------------------------------

Levels == {"state", "district", "block", "village"}

\* 1 for the coarsest level, 4 for the most specific.
Rank(l) ==
    CASE l = "state" -> 1 [] l = "district" -> 2 [] l = "block" -> 3 [] l = "village" -> 4

FeatureOf(l) ==
    CASE l = "state" -> state_feature
      [] l = "district" -> district_feature
      [] l = "block" -> block_feature
      [] l = "village" -> village_feature

\* C7: a resolve_aoi call whose state is None or empty ends at once with
\* the "State is required" ValueError: the call has sent no query, returned
\* no AOI and left the resolution notes as they were, whatever the other
\* arguments and the mode.
C7_MissingStateFailsFirst ==
    [][(rpc \in {"idle", "returned", "raised"} /\ state' \in {None, ""}) =>
            /\ rpc' = "raised"
            /\ error' = [type |-> "ValueError",
                         message |-> "State is required to resolve an AOI."]
            /\ queries' = <<>>
            /\ aoi' = <<>>
            /\ last_resolution_notes' = last_resolution_notes]_vars

C7_Witness ==
    /\ rpc = "raised"
    /\ state = ""
    /\ district = "Dhalai"
    /\ village = "Salema"
    /\ error.message = "State is required to resolve an AOI."
    /\ queries = <<>>
    /\ Len(last_resolution_notes) >= 2

\* C8: when the state query raised or returned no feature, resolve_aoi has
\* failed with the "not found" ValueError, the state query is the only query
\* of the call and no AOI is returned; a query for a lower level is only
\* ever sent after the state resolved.
C8_UnresolvedStateFailsHard ==
    /\ (queries # <<>> /\ (queries[1].raises # None \/ queries[1].count = 0)) =>
            /\ rpc = "raised"
            /\ error = [type |-> "ValueError",
                        message |-> "State '" \o state \o "' not found."]
            /\ Len(queries) = 1
            /\ queries[1].layer_key = "state"
            /\ state_feature = <<>>
            /\ aoi = <<>>
    /\ \A i \in DOMAIN queries :
            queries[i].layer_key # "state" => (i > 1 /\ state_feature # <<>>)

C8_Witness ==
    /\ rpc = "raised"
    /\ state = "Tripura"
    /\ district = "Dhalai"
    /\ village = "Salema"
    /\ Len(queries) = 1
    /\ queries[1].raises = "Timeout"
    /\ error.message = "State 'Tripura' not found."

\* C9: once the state feature is there, resolve_aoi does not raise: it is
\* at a lower level or has returned, and when it has returned it returned
\* an AOI, whatever the lower levels' names and query outcomes were.
C9_NoHardFailureBelowState ==
    state_feature # <<>> =>
        /\ rpc \in {"district", "block", "village", "returned"}
        /\ error = NoError
        /\ (rpc = "returned" => aoi # <<>> /\ AOIValid(aoi[1]))

\* The AOI's source layer and centroid are those of level l's feature.
SuppliedBy(a, l) ==
    /\ FeatureOf(l) # <<>>
    /\ a.source_layer = AOI_LAYERS[l].url
    /\ LET c == geometry_centroid(FeatureOf(l)[1])
       IN  IF c = <<>>
           THEN a.centroid_lat = <<>> /\ a.centroid_lon = <<>>
           ELSE a.centroid_lat = <<c[1]>> /\ a.centroid_lon = <<c[2]>>

MostSpecificResolved(l) ==
    /\ FeatureOf(l) # <<>>
    /\ \A m \in Levels : Rank(m) > Rank(l) => FeatureOf(m) = <<>>

\* C10 as written: every AOI resolve_aoi returns has the source layer and
\* the centroid of the most specific level that resolved.
C10_Original_EveryAOIFromBestLevel ==
    (rpc = "returned" /\ aoi # <<>>) =>
        \E l \in Levels : MostSpecificResolved(l) /\ SuppliedBy(aoi[1], l)

\* C10 amended: outside stub mode, every AOI resolve_aoi returns has the
\* source layer and the centroid of exactly the most specific level that
\* resolved, and of no level that did not resolve.  (In stub mode the AOI
\* is fixed and no level supplies it.)
C10_AOIFromBestLevel ==
    (rpc = "returned" /\ aoi # <<>> /\ ~stub_mode) =>
        /\ \E l \in Levels : MostSpecificResolved(l) /\ SuppliedBy(aoi[1], l)
        /\ \A l \in DOMAIN AOI_LAYERS :
              aoi[1].source_layer = AOI_LAYERS[l].url => MostSpecificResolved(l)

C10_Witness ==
    /\ rpc = "returned"
    /\ ~stub_mode
    /\ village = "Salema"
    /\ Len(queries) = 3
    /\ queries[3].layer_key = "village"
    /\ queries[3].count = 0
    /\ village_feature = <<>>
    /\ district_feature = <<DistrictFull>>
    /\ aoi[1].source_layer = AOI_LAYERS["district"].url
    /\ aoi[1].centroid_lat = <<230000>>
    /\ aoi[1].centroid_lon = <<910000>>

ArgOf(l) ==
    CASE l = "state" -> state
      [] l = "district" -> district
      [] l = "block" -> block
      [] l = "village" -> village

LabelOf(a, l) ==
    CASE l = "state" -> a.state
      [] l = "district" -> a.district
      [] l = "block" -> a.block
      [] l = "village" -> a.village

\* The label the AOI is to carry for level l: the name attribute of the
\* level's feature (the caller's string when the feature has none) if the
\* level resolved, else the caller's string if one was given, else "N/A".
ExpectedLabel(l) ==
    IF FeatureOf(l) # <<>>
    THEN LET attrs == FeatureOf(l)[1].attributes
             field == AOI_LAYERS[l].name_field
         IN  IF field \in DOMAIN attrs /\ attrs[field] \notin {None, ""}
             THEN attrs[field] ELSE ArgOf(l)
    ELSE IF ArgOf(l) \notin {None, ""} THEN ArgOf(l)
    ELSE "N/A"

\* C11: in every AOI resolve_aoi returns, the district, block and village
\* labels are each the canonical name of the level's feature if the level
\* resolved, else the caller's string if one was given, else "N/A".
C11_LabelsOfReturnedAOI ==
    (rpc = "returned" /\ aoi # <<>>) =>
        \A l \in {"district", "block", "village"} :
            LabelOf(aoi[1], l) = ExpectedLabel(l)

\* C20: a district, block or village query that raised or found nothing
\* has left exactly one note that names the level and says that a
\* higher-level boundary is used; and when the state resolved, the district
\* was asked for and did not resolve and block and village are blank, the
\* AOI's source is the state layer and a note tells of the district fallback.
C20_UnresolvedLevelNoted ==
    /\ \A i \in DOMAIN queries :
          LET q == queries[i]
              text == CASE q.layer_key = "district" ->
                              "District 'Dhalai' not found; using state boundary for calculations."
                        [] q.layer_key = "block" ->
                              "Block \"Salema\" not found; using higher-level boundary."
                        [] q.layer_key = "village" ->
                              "Village \"Salema\" not found; using higher-level boundary."
                        [] OTHER -> ""
          IN  (q.layer_key # "state" /\ (q.raises # None \/ q.count = 0)
               /\ rpc \in {"block", "village", "returned"}
               /\ (rpc = "returned" \/ Rank(rpc) > Rank(q.layer_key))) =>
                  Cardinality({j \in DOMAIN last_resolution_notes :
                                  last_resolution_notes[j] = text}) = 1
    /\ (rpc = "returned" /\ ~stub_mode /\ state_feature # <<>>
        /\ district \notin {None, ""} /\ district_feature = <<>>
        /\ block \in {None, ""} /\ village \in {None, ""}) =>
            /\ aoi # <<>>
            /\ aoi[1].source_layer = AOI_LAYERS["state"].url
            /\ \E j \in DOMAIN last_resolution_notes :
                  last_resolution_notes[j] =
                      "District 'Dhalai' not found; using state boundary for calculations."

C20_Witness ==
    /\ rpc = "returned"
    /\ state_feature = <<StateFull>>
    /\ district = "Dhalai"
    /\ block = None
    /\ village = ""
    /\ Len(queries) = 2
    /\ queries[2].layer_key = "district"
    /\ queries[2].count = 0
    /\ aoi[1].source_layer = AOI_LAYERS["state"].url
    /\ aoi[1].district = "Dhalai"
    /\ last_resolution_notes =
          <<"District 'Dhalai' not found; using state boundary for calculations.",
            "AOI geometry resolved at state level.">>

Blank(name) == name \in {None, ""}

\* The notes resolve_aoi can append about one level.
NotesAbout(l) ==
    {NotFoundNote(l, n) : n \in {"Dhalai", "Salema"}}
    \cup {NotConfiguredNote(l), ResolvedAtNote(l)}

\* The call has passed the blocks of the three lower levels' names.
PastLevel(l) == rpc = "returned" \/ (rpc \in Levels /\ Rank(rpc) > Rank(l))

\* C21: a district, block or village whose name is blank has no query sent
\* to its layer and, once the call is past that level, no note about it; the
\* AOI returned carries the label "N/A" for that level.
C21_BlankLevelSkipped ==
    \A l \in {"district", "block", "village"} :
        Blank(ArgOf(l)) =>
            /\ \A i \in DOMAIN queries : queries[i].layer_key # l
            /\ (~stub_mode /\ PastLevel(l)) =>
                  \A j \in DOMAIN last_resolution_notes :
                      last_resolution_notes[j] \notin NotesAbout(l)
            /\ (rpc = "returned" /\ aoi # <<>>) => LabelOf(aoi[1], l) = "N/A"

\* The most specific level the caller gave a name for.
MostSpecificRequested(l) ==
    /\ ~Blank(ArgOf(l))
    /\ \A m \in Levels : Rank(m) > Rank(l) => Blank(ArgOf(m))

TimesNoted(note) ==
    Cardinality({j \in DOMAIN last_resolution_notes : last_resolution_notes[j] = note})

\* C22 as written: outside stub mode, a returned call has appended the note
\* naming the level that supplied the geometry when that level is not the
\* most specific requested level, and has not appended it when it is.
C22_Original_NotedUnlessRequested ==
    (rpc = "returned" /\ ~stub_mode) =>
        \A l \in Levels :
            MostSpecificResolved(l) =>
                TimesNoted(ResolvedAtNote(l)) = IF MostSpecificRequested(l) THEN 0 ELSE 1

\* C22 amended: outside stub mode, a returned call has appended the note
\* naming the level that supplied the geometry whenever that level is not
\* the village level, so whenever it is not the most specific requested
\* level and also when it is the state, district or block level that the
\* caller asked for (a state-only request that resolves has the note);
\* there is no such note only when the village supplied the geometry.
C22_NotedUnlessVillage ==
    (rpc = "returned" /\ ~stub_mode) =>
        \A l \in Levels :
            MostSpecificResolved(l) =>
                /\ TimesNoted(ResolvedAtNote(l)) = IF l = "village" THEN 0 ELSE 1
                /\ ~MostSpecificRequested(l) => TimesNoted(ResolvedAtNote(l)) = 1

C22_Witness ==
    /\ rpc = "returned"
    /\ ~stub_mode
    /\ state = "Tripura"
    /\ Blank(district) /\ Blank(block) /\ Blank(village)
    /\ MostSpecificResolved("state")
    /\ MostSpecificRequested("state")
    /\ last_resolution_notes = <<"AOI geometry resolved at state level.">>

\* C23: outside stub mode, a call that was given a block name has, once
\* past the block level, exactly one "Block layer not configured" note, no
\* query for the block level and no block feature; it has gone on to the
\* village level, whose query it sends when a village name was given, and
\* nothing has raised before the AOI is constructed.
C23_UnconfiguredLevelNoted ==
    (~stub_mode /\ ~Blank(block) /\ state_feature # <<>>) =>
        /\ rpc = "raised" =>
              /\ error.type = "ValidationError"
              /\ TimesNoted("Block layer not configured; skipping.") = 1
              /\ Blank(village) \/ \E i \in DOMAIN queries : queries[i].layer_key = "village"
        /\ \A i \in DOMAIN queries :
              queries[i].layer_key # "block"
              /\ queries[i].url \in {AOI_LAYERS[k].url : k \in DOMAIN AOI_LAYERS}
        /\ block_feature = <<>>
        /\ PastLevel("block") =>
              /\ TimesNoted("Block layer not configured; skipping.") = 1
              /\ \A n \in {"Dhalai", "Salema"} :
                    TimesNoted(NotFoundNote("block", n)) = 0
        /\ (rpc = "returned" /\ ~Blank(village)) =>
              \E i \in DOMAIN queries : queries[i].layer_key = "village"

C23_Witness ==
    /\ rpc = "returned"
    /\ ~stub_mode
    /\ block = "Salema"
    /\ village = "Salema"
    /\ block_feature = <<>>
    /\ village_feature = <<VillageFull>>
    /\ aoi # <<>>
    /\ aoi[1].block = "Salema"
    /\ last_resolution_notes = <<"Block layer not configured; skipping.">>

\* A two-letter abbreviation of the state table.
IsAbbreviation(v) == \E full \in DOMAIN STATE_NAME_MAPPING : STATE_NAME_MAPPING[full] = v

\* C24: in every district query the value compared with the layer's state
\* field is a two-letter abbreviation, and in every village query it is the
\* full name of the resolved state, not an abbreviation.
C24_StateValueFormat ==
    \A i \in DOMAIN queries :
        LET q == queries[i]
        IN  q.layer_key \in {"district", "village"} =>
                \A j \in DOMAIN q.where :
                    q.where[j].field = AOI_LAYERS[q.layer_key].state_field =>
                        IF q.layer_key = "district"
                        THEN IsAbbreviation(q.where[j].value)
                        ELSE /\ ~IsAbbreviation(q.where[j].value)
                             /\ q.where[j].value = Get(context, "state_name_full", None)

\* ------------------------------------------------------------------------
\* Properties of _eq_clause (SpecEscape)
\* ------------------------------------------------------------------------

Count(seq, ch) == Cardinality({i \in DOMAIN seq : seq[i] = ch})

FirstQuote(clause) ==
    CHOOSE i \in DOMAIN clause :
        clause[i] = Quote /\ \A j \in 1..(i - 1) : clause[j] # Quote

LastQuote(clause) ==
    CHOOSE i \in DOMAIN clause :
        clause[i] = Quote /\ \A j \in (i + 1)..Len(clause) : clause[j] # Quote

\* Reading of a quoted literal from position i, just after its opening
\* quote: two quotes in a row stand for one quote character, a quote on its
\* own closes the literal.  end is the position of the closing quote, or 0.
RECURSIVE ScanLiteral(_, _, _)
ScanLiteral(clause, i, acc) ==
    IF i > Len(clause) THEN [value |-> acc, end |-> 0]
    ELSE IF clause[i] # Quote THEN ScanLiteral(clause, i + 1, Append(acc, clause[i]))
    ELSE IF i < Len(clause) /\ clause[i + 1] = Quote
    THEN ScanLiteral(clause, i + 2, Append(acc, Quote))
    ELSE [value |-> acc, end |-> i]

\* C15: in the predicate _eq_clause builds for a name, every quote of the
\* name is doubled; read from its first quote, the literal closes at the
\* last quote of the predicate and nowhere before, and spells the name.
C15_QuotesDoubled ==
    ec_clause # <<>> =>
        LET lit == ScanLiteral(ec_clause, FirstQuote(ec_clause) + 1, <<>>)
        IN  /\ Count(ec_clause, Quote) = 2 + 2 * Count(ec_value, Quote)
            /\ lit.end = LastQuote(ec_clause)
            /\ lit.end = Len(ec_clause) - 1
            /\ lit.value = ec_value

C15_Witness ==
    /\ ec_field = <<"n", "a", "m", "e">>
    /\ ec_value = <<"O", Quote, "b">>
    /\ ec_clause = <<"U", "P", "P", "E", "R", "(", "n", "a", "m", "e", ")", " ", "=", " ",
                     "U", "P", "P", "E", "R", "(", "'", "O", "'", "'", "b", "'", ")">>

\* ------------------------------------------------------------------------
\* Properties of _sleep (SpecSleep)
\* ------------------------------------------------------------------------

\* C16: the delay slept after failing attempt n is at least
\* backoff_factor * 2^(n-1) and less than 1.5 times that; so from attempt
\* n-1 to attempt n the least possible delay doubles.
C16_BackoffDelayRange ==
    sleep_delay # 0 =>
        /\ sleep_attempt >= 1
        /\ sleep_delay >= backoff_factor * Pow2(sleep_attempt - 1)
        /\ 2 * sleep_delay < 3 * backoff_factor * Pow2(sleep_attempt - 1)
        /\ sleep_attempt >= 2 =>
              sleep_delay >= 2 * backoff_factor * Pow2(sleep_attempt - 2)

C16_Witness ==
    /\ backoff_factor = 600
    /\ sleep_attempt = 3
    /\ sleep_delay = 3599

\* ------------------------------------------------------------------------
\* Properties of the state table (SpecTable)
\* ------------------------------------------------------------------------

\* The two characters of each code of the table.
CodeChars ==
    [c \in DOMAIN STATE_ABBREV_TO_FULL |->
        CHOOSE p \in [1..2 -> {UpperCase[k] : k \in DOMAIN UpperCase}] : JoinChars(p) = c]

\* a and b are the same letters up to letter case.
SameLetters(a, b) ==
    /\ Len(a) = Len(b)
    /\ \A i \in DOMAIN a :
          \/ a[i] = b[i]
          \/ \E k \in DOMAIN UpperCase : {a[i], b[i]} = {UpperCase[k], LowerCase[k]}

\* C18: the table has 36 names and 36 codes; a name of the table gives a
\* code that gives the name back, a code of the table in any letter case
\* gives a name that gives the code back, and a name or a code outside the
\* table gives None.
C18_StateTableBijection ==
    /\ Cardinality(DOMAIN STATE_NAME_MAPPING) = 36
    /\ Cardinality(DOMAIN STATE_ABBREV_TO_FULL) = 36
    /\ (st_result # <<>> /\ st_call.fn = "get_state_abbreviation") =>
          IF st_call.arg \in DOMAIN STATE_NAME_MAPPING
          THEN /\ st_result[1] \in DOMAIN CodeChars
               /\ get_state_full_name(CodeChars[st_result[1]]) = st_call.arg
          ELSE st_result = <<None>>
    /\ (st_result # <<>> /\ st_call.fn = "get_state_full_name") =>
          LET matches == {c \in DOMAIN CodeChars : SameLetters(st_call.arg, CodeChars[c])}
          IN  IF matches = {} THEN st_result = <<None>>
              ELSE \E c \in matches :
                      /\ st_result[1] \in DOMAIN STATE_NAME_MAPPING
                      /\ get_state_abbreviation(st_result[1]) = c

C18_Witness ==
    /\ st_call.fn = "get_state_full_name"
    /\ st_call.arg = <<"t", "R">>
    /\ st_result = <<"Tripura">>

\* ------------------------------------------------------------------------
\* Properties of min_distance_km (SpecGeo)
\* ------------------------------------------------------------------------

\* C19: min_distance_km returns None for an empty list of candidates, and
\* otherwise the distance from the base to one of the candidates, which is
\* at most the distance to each of them.
C19_MinDistance ==
    md_result # <<>> =>
        IF md_points = <<>> THEN md_result[1] = <<>>
        ELSE /\ md_result[1] # <<>>
             /\ \E i \in DOMAIN md_points :
                   md_result[1][1] = haversine_km(md_base[1], md_base[2],
                                                  md_points[i][1], md_points[i][2])
             /\ \A i \in DOMAIN md_points :
                   md_result[1][1] <= haversine_km(md_base[1], md_base[2],
                                                   md_points[i][1], md_points[i][2])

C19_Witness ==
    /\ md_base = <<100000, 100000>>
    /\ md_points = <<(<<110000, 110000>>), (<<101000, 101000>>)>>
    /\ md_result = <<(<<15605>>)>>

\* ------------------------------------------------------------------------
\* Properties of build_indicator_bundle (SpecBundle)
\* ------------------------------------------------------------------------

\* What the client did for the query the current call sent to url; NoQuery
\* when the call sent none.
OutcomeAt(url) ==
    IF \E i \in DOMAIN bundle_queries : bundle_queries[i].url = url
    THEN LET i == CHOOSE i \in DOMAIN bundle_queries : bundle_queries[i].url = url
         IN  [raises |-> bundle_queries[i].raises, results |-> bundle_queries[i].results]
    ELSE NoQuery

\* A failed query counts for nothing found.
NothingIfFailed(outcome) == IF outcome.raises # None THEN NoQuery ELSE outcome

GroundwaterUrls ==
    {AOI_LAYERS["district"].url,
     INDICATOR_LAYERS["groundwater_pre_monsoon"].url,
     INDICATOR_LAYERS["groundwater_during_monsoon"].url,
     INDICATOR_LAYERS["groundwater_post_monsoon"].url}

\* The call raised on the row a query returned, not on a failed query:
\* its last query did not fail and its row holds a text where a count is due.
RaisedOnTextCount ==
    /\ bundle_queries # <<>>
    /\ LET last == bundle_queries[Len(bundle_queries)]
       IN  /\ last.url = INDICATOR_LAYERS["mgnrega_workers"].url
           /\ last.raises = None
           /\ last.results # <<>>
           /\ \E k \in DOMAIN last.results[1].attributes :
                 last.results[1].attributes[k].kind = "str"

\* C12: build_indicator_bundle does not raise because a query failed,
\* whatever queries fail; the bundle it returns has, for each indicator, the
\* value a failed query's empty answer gives: the default form when all the
\* indicator's queries failed, and a value that depends on the indicator's
\* own queries only.
C12_BundleSurvivesFailedQueries ==
    /\ bpc = "raised" => RaisedOnTextCount
    /\ (bpc = "returned" /\ ~stub_mode) =>
          /\ bundle # <<>>
          /\ bundle[1].gw =
                fetch_groundwater(
                    NothingIfFailed(OutcomeAt(AOI_LAYERS["district"].url)),
                    NothingIfFailed(OutcomeAt(INDICATOR_LAYERS["groundwater_pre_monsoon"].url)),
                    NothingIfFailed(OutcomeAt(INDICATOR_LAYERS["groundwater_during_monsoon"].url)),
                    NothingIfFailed(OutcomeAt(INDICATOR_LAYERS["groundwater_post_monsoon"].url)))
          /\ bundle[1].aquifer =
                fetch_aquifer(bundle_aoi[1],
                              NothingIfFailed(OutcomeAt(INDICATOR_LAYERS["aquifer"].url)))
          /\ bundle[1].lulc_pc = fetch_lulc(NothingIfFailed(OutcomeAt(AOI_LAYERS["state"].url)))
          /\ bundle[1].mgnrega =
                fetch_mgnrega(NothingIfFailed(OutcomeAt(INDICATOR_LAYERS["mgnrega_workers"].url)))
          /\ (\A u \in GroundwaterUrls : OutcomeAt(u).raises # None) =>
                bundle[1].gw = GroundWaterDefault
          /\ OutcomeAt(INDICATOR_LAYERS["aquifer"].url).raises # None =>
                bundle[1].aquifer = AquiferDefault
          /\ OutcomeAt(AOI_LAYERS["state"].url).raises # None =>
                bundle[1].lulc_pc = LULCDefault
          /\ OutcomeAt(INDICATOR_LAYERS["mgnrega_workers"].url).raises # None =>
                bundle[1].mgnrega = MGNREGADefault

C12_Witness ==
    /\ bpc = "returned"
    /\ ~stub_mode
    /\ Len(bundle_queries) = 7
    /\ bundle_queries[2].raises = "HTTPError"
    /\ bundle_queries[5].raises = "ArcGISError"
    /\ bundle_queries[7].raises = "HTTPError"
    /\ bundle[1].aquifer = AquiferDefault
    /\ bundle[1].mgnrega = MGNREGADefault
    /\ bundle[1].gw.stressed = <<TRUE>>
    /\ bundle[1].gw.category = "Critical"
    /\ bundle[1].lulc_pc.forest_area_sqkm = <<7726>>

\* The primary water level of the current call: the first of the post-,
\* during- and pre-monsoon averages that is there.
PrimaryLevel ==
    first_not_none(
        <<average_groundwater_layer("groundwater_post_monsoon",
              OutcomeAt(INDICATOR_LAYERS["groundwater_post_monsoon"].url)),
          average_groundwater_layer("groundwater_during_monsoon",
              OutcomeAt(INDICATOR_LAYERS["groundwater_during_monsoon"].url)),
          average_groundwater_layer("groundwater_pre_monsoon",
              OutcomeAt(INDICATOR_LAYERS["groundwater_pre_monsoon"].url))>>)

\* C13: the stress flag of the groundwater indicator is None exactly when
\* there is no primary water level, and otherwise it is the boolean
\* "primary level >= threshold", whatever number the primary level is.
C13_StressFlag ==
    (gw # <<>> /\ ~stub_mode) =>
        IF PrimaryLevel = <<>> THEN gw[1].stressed = <<>>
        ELSE gw[1].stressed =
                <<FGe(PrimaryLevel[1], FromRatio(gw_stress_threshold_m, 100))>>

\* rate is n / d in 0.01 percent, rounded to the nearest.
IsRateOf(rate, n, d) == 2 * rate * d - 2 * n * 10000 \in (0 - d)..d

\* The rate is a number exactly when its numerator n is present and its
\* denominator d is present and positive, and then it is n / d.
RateAsClaimed(rate, n, d) ==
    IF n # <<>> /\ d # <<>> /\ d[1] > 0
    THEN rate # <<>> /\ IsRateOf(rate[1], n[1], d[1])
    ELSE rate = <<>>

\* C14: in the employment indicator, each of the issuance, activation and
\* women participation rates is a number exactly when its numerator is
\* present and its denominator is present and positive, and None
\* otherwise; a denominator of 0 gives None and the call goes on: the call
\* raises on no row whose counts are numbers or None.
C14_EmploymentRates ==
    /\ mgnrega # <<>> =>
          /\ RateAsClaimed(mgnrega[1].jobcard_issuance_rate_pc,
                           mgnrega[1].jobcards_issued, mgnrega[1].jobcards_applied)
          /\ RateAsClaimed(mgnrega[1].worker_activation_rate_pc,
                           mgnrega[1].active_workers_total,
                           mgnrega[1].registered_workers_total)
          /\ RateAsClaimed(mgnrega[1].women_participation_pc,
                           mgnrega[1].active_workers_women,
                           mgnrega[1].active_workers_total)
          /\ bpc = "returned"
    /\ bpc = "raised" => RaisedOnTextCount

C14_Witness ==
    /\ bpc = "returned"
    /\ mgnrega # <<>>
    /\ mgnrega[1].jobcards_applied = <<0>>
    /\ mgnrega[1].jobcards_issued = <<80>>
    /\ mgnrega[1].jobcard_issuance_rate_pc = <<>>
    /\ mgnrega[1].women_participation_pc = <<>>
    /\ bundle[1].mgnrega = mgnrega[1]

\* The average of one season's layer in the current call.
SeasonAverage(layer_key) ==
    average_groundwater_layer(layer_key, OutcomeAt(INDICATOR_LAYERS[layer_key].url))

\* The reported level is the average avg rounded to two places.
IsRounded(reported, avg) == reported = rounded(avg)

\* C25: the primary water level of the groundwater indicator is the
\* post-monsoon average if there is one, else the during-monsoon average if
\* there is one, else the pre-monsoon average, and None only when none of
\* the three averages is there.
C25_PrimaryWaterLevel ==
    (gw # <<>> /\ ~stub_mode) =>
        LET post == SeasonAverage("groundwater_post_monsoon")
            during == SeasonAverage("groundwater_during_monsoon")
            pre == SeasonAverage("groundwater_pre_monsoon")
            reported == gw[1].district_pre2019_m
        IN  IF post # <<>> THEN IsRounded(reported, post[1])
            ELSE IF during # <<>> THEN IsRounded(reported, during[1])
            ELSE IF pre # <<>> THEN IsRounded(reported, pre[1])
            ELSE reported = <<>>

\* The aquifer query of the current call, if one was sent.
AquiferQueries ==
    {i \in DOMAIN bundle_queries : bundle_queries[i].url = INDICATOR_LAYERS["aquifer"].url}

\* C27: _fetch_aquifer does not raise; for an AOI without a centroid
\* coordinate it sends no query and returns the empty Aquifer; for an AOI
\* with both coordinates it sends the query, returns the empty Aquifer when
\* the query failed or matched nothing, and else the type and code of the
\* first match.
C27_AquiferOfCentroid ==
    /\ ~(bpc = "raised" /\ gw # <<>> /\ aquifer = <<>>)
    /\ (aquifer # <<>> /\ ~stub_mode) =>
          LET a == bundle_aoi[1]
              o == OutcomeAt(INDICATOR_LAYERS["aquifer"].url)
          IN  IF a.centroid_lat = <<>> \/ a.centroid_lon = <<>>
              THEN AquiferQueries = {} /\ aquifer[1] = AquiferDefault
              ELSE /\ Cardinality(AquiferQueries) = 1
                   /\ (o.raises # None \/ o.results = <<>>) => aquifer[1] = AquiferDefault
                   /\ (o.raises = None /\ o.results # <<>> /\ o.results[1] = AquiferFull) =>
                         aquifer[1] = [type |-> "Alluvium", code |-> "AL01"]
                   /\ (o.raises = None /\ o.results # <<>> /\ o.results[1] = AquiferLegacy) =>
                         aquifer[1] = [type |-> "Younger Alluvium", code |-> "AL43"]

\* C29: for an AOI whose district label is the sentinel "N/A", no query of
\* build_indicator_bundle compares a field with "N/A".
C29_SentinelNotAFilter ==
    (bundle_aoi # <<>> /\ bundle_aoi[1].district = "N/A") =>
        \A i \in DOMAIN bundle_queries :
            \A j \in DOMAIN bundle_queries[i].where :
                bundle_queries[i].where[j].value # "N/A"

\* ------------------------------------------------------------------------
\* Properties of _fetch_district_groundwater (SpecStage)
\* ------------------------------------------------------------------------

\* The bands of the stage of development.
Bands ==
    [c \in {"Safe", "Semi-critical", "Critical", "Over-exploited"} |->
        CASE c = "Safe" -> {n \in 0..(MaxStage + 1) : n < 70}
          [] c = "Semi-critical" -> {n \in 0..(MaxStage + 1) : n >= 70 /\ n < 90}
          [] c = "Critical" -> {n \in 0..(MaxStage + 1) : n >= 90 /\ n < 100}
          [] c = "Over-exploited" -> {n \in 0..(MaxStage + 1) : n >= 100}]

\* C26: a numeric stage of development lies in exactly one band, Safe below
\* 70, Semi-critical from 70 to below 90, Critical from 90 to below 100,
\* Over-exploited from 100, and the category returned is that band; when
\* the stage is missing or not a number (a text float() rejects, or nan),
\* or there is no row, no category is returned.
C26_StageCategoryBands ==
    sg_data # <<>> =>
        IF sg_outcome.raises = None /\ sg_outcome.results # <<>>
           /\ sg_outcome.results[1].attributes["Stage_of_d"].kind = "num"
        THEN LET n == sg_outcome.results[1].attributes["Stage_of_d"].v
             IN  /\ Cardinality({c \in DOMAIN Bands : n \in Bands[c]}) = 1
                 /\ sg_data[1].category \in DOMAIN Bands
                 /\ n \in Bands[sg_data[1].category]
                 /\ sg_data[1].stage_of_development = <<n>>
        ELSE sg_data[1].category = None /\ sg_data[1].stage_of_development = <<>>

\* ------------------------------------------------------------------------
\* Properties of the service in stub mode (SpecService)
\* ------------------------------------------------------------------------

\* C28: in stub mode no call has sent a query; every resolve_aoi call that
\* was given a state has returned, and returned the stub AOI, with the
\* caller's state, source layer "stub" and the fixed centroid; every
\* build_indicator_bundle call has returned the stub bundle.
C28_StubModeIssuesNoQuery ==
    stub_mode =>
        /\ queries = <<>>
        /\ bundle_queries = <<>>
        /\ rpc \in {"idle", "returned", "raised"}
        /\ bpc \in {"idle", "returned"}
        /\ (rpc # "idle" /\ ~Blank(state)) =>
              /\ rpc = "returned"
              /\ aoi # <<>>
              /\ aoi[1].state = state
              /\ aoi[1].source_layer = "stub"
              /\ aoi[1].centroid_lat = <<171234>>
              /\ aoi[1].centroid_lon = <<785432>>
        /\ bpc = "returned" => bundle = <<StubBundle>>

\* ------------------------------------------------------------------------
\* Properties of callers sharing one service (SpecCycles)
\* ------------------------------------------------------------------------

InSeq(x, seq) == \E i \in DOMAIN seq : seq[i] = x

\* C17: the notes of a caller's report hold every note its own resolve_aoi
\* call appended, and no note that only the other caller's resolve_aoi
\* call appended.
C17_ReportNotesAreOwn ==
    \A c \in Cycles :
        cy_report[c] # <<>> =>
            /\ \A i \in DOMAIN cy_notes[c] : InSeq(cy_notes[c][i], cy_report[c][1].notes)
            /\ \A k \in Cycles \ {c} : \A i \in DOMAIN cy_notes[k] :
                  InSeq(cy_notes[k][i], cy_report[c][1].notes) =>
                      InSeq(cy_notes[k][i], cy_notes[c])

\* The land-use indicator carries no value at all.
LulcEmpty(l) ==
    /\ l.classes = EmptyDict
    /\ l.forest_area_sqkm = <<>>
    /\ l.forest_percentage = <<>>
    /\ l.scrub_area_sqkm = <<>>
    /\ l.geographic_area_sqkm = <<>>

\* C30: a report carries the note "LULC data unavailable; values omitted."
\* only when its land-use indicator carries no values; a report with a
\* forest, scrub or geographic area figure does not carry it.
C30_LulcNoteOnlyWithoutValues ==
    \A c \in Cycles :
        (cy_report[c] # <<>>
         /\ InSeq("LULC data unavailable; values omitted.", cy_report[c][1].notes)) =>
            LulcEmpty(cy_report[c][1].indicators.lulc_pc)

====
